---- MODULE Spec2Model ----
(***************************************************************************)
(* A model of the reconciliation scheduler patterns of the repository:     *)
(* the per-key TryLock manager, the deduplicating work queue, the refresh  *)
(* gate and level-triggered Reconcile, the commit/rollback StateManager,   *)
(* the reference-counted InformerManager, SetCondition, the                *)
(* StatusReconciler and the exponential backoff.                           *)
(*                                                                         *)
(* Every component has its own variables, its own initial predicate and    *)
(* its own next-state relation; a specification SpecX runs one component   *)
(* and leaves the variables of the others unchanged.                       *)
(***************************************************************************)
EXTENDS Integers, Sequences, FiniteSets, TLC

----------------------------------------------------------------------------
(* Bounds *)

\* number of goroutines calling TryLock
NumCallers == 2

\* number of sync.Mutex values that may be allocated by the lock registry
MaxMutexes == 4

\* number of worker goroutines pulling from the work queue
NumWorkers == 2

\* number of items enqueued on one StateManager
MaxItems == 2

\* number of Commit and Rollback calls made on one StateManager
MaxOps == 2

\* number of generateWithRollback attempts
MaxAttempts == 2

\* number of informers the InformerManager may start
MaxInformers == 3

\* the latest instant time.Now() returns
MaxClock == 3

\* the largest failure count DelayForFailure is called with
MaxFailures == 40
MaxLimiters == 3
MaxRequeues == 3
MaxUndos == 4
MaxDelaysTaken == 9
MaxRetriesGiven == 4

----------------------------------------------------------------------------
(* Strings are sequences of characters, so that formatting is computed. *)

\* provider and secret names handed to TryLock
ProviderNames == { <<"a">>, <<"a", "#", "b">> }
SecretNames == { <<"c">>, <<"b", "#", "c">> }

Callers == 1..NumCallers

NoArg == << <<>>, <<>> >>

\* a nil *sync.Mutex / nil unlock func
Nil == 0

----------------------------------------------------------------------------
(* Errors: an error is its wrap chain, outermost first; nil is <<>>. *)

NilErr == <<>>

ErrConflict == "ErrConflict"

\* fmt.Errorf("...: %w", inner): a new error wrapping inner
Wrap(msg, inner) == <<msg>> \o inner

RECURSIVE Flatten(_)
Flatten(errs) == IF errs = <<>> THEN <<>> ELSE Head(errs) \o Flatten(Tail(errs))

\* a join that keeps only the first error that is not nil
RECURSIVE ErrorsJoinFirst(_)
ErrorsJoinFirst(errs) ==
    IF errs = <<>> THEN <<>>
    ELSE IF Head(errs) # <<>> THEN Head(errs)
    ELSE ErrorsJoinFirst(Tail(errs))

\* errors.Join(errs...): nil values are dropped; nil if none is left, else
\* an error wrapping all of them
ErrorsJoin(errs) == Flatten(errs)

\* errors.Is(err, target): target occurs in the wrap chain of err
ErrorsIs(err, target) == \E i \in 1..Len(err) : err[i] = target

----------------------------------------------------------------------------
(* Pattern 14: TryLock for non-blocking concurrent access *)

VARIABLES
    locks,        \* secretLocks.locks: sync.Map from key to *sync.Mutex
    mutexLocked,  \* state of every allocated sync.Mutex
    nextMu,       \* number of sync.Mutex values stored so far
    lpc,          \* position of every caller inside TryLock
    larg,         \* (providerName, secretName) of the call in progress
    lmu,          \* the *sync.Mutex a caller got from LoadOrStore
    lunlock,      \* the unlock function returned to the caller (Nil if none)
    lerr          \* the error returned by the caller's last TryLock

lockVars == <<locks, mutexLocked, nextMu, lpc, larg, lmu, lunlock, lerr>>

VARIABLES
    wq,           \* the work queue: [queue, dirty, processing]
    wkey,         \* the key every worker is reconciling (NoKey if none)
    burst,        \* the keys added since they were last dequeued
    requeued,     \* the keys whose latest done followed an add made meanwhile
    outstanding   \* per key: bursts of add calls minus dequeues so far

queueVars == <<wq, wkey, burst, requeued, outstanding>>

VARIABLES
    smQueue,      \* StateManager.queue
    smCalls,      \* the functions the latest Commit or Rollback invoked
    smErr,        \* the error the latest Commit or Rollback returned
    smLast,       \* the latest operation: "none", "Commit" or "Rollback"
    smOps,        \* number of Commit and Rollback calls made
    smSeen,       \* number of items the latest Commit or Rollback went through
    smRepeated,   \* calls of the latest operation on items gone through before
    gw            \* one generateWithRollback attempt

smVars == <<smQueue, smCalls, smErr, smLast, smOps, smSeen, smRepeated>>

VARIABLES
    rec           \* one LevelTriggeredReconciler.Reconcile call and what it read

VARIABLES
    informers,    \* InformerManager.informers: GVK.String() -> informerEntry
    infStarted,   \* the key every started informer was started for, in order
    infStops,     \* how often the stop function of every informer was called
    infLast       \* the latest EnsureInformer or ReleaseInformer call

infVars == <<informers, infStarted, infStops, infLast>>

VARIABLES
    clock         \* the instant time.Now() returns

VARIABLES
    conds,        \* ResourceStatus.Conditions
    condLast      \* the latest SetCondition call and the branch it took

condVars == <<conds, condLast>>

VARIABLES
    sr,           \* one StatusReconciler.Reconcile call
    srWritten     \* the statuses the deferred update wrote, oldest first

srVars == <<sr, srWritten>>

VARIABLES
    gate          \* one evaluation of the two gating checks and its inputs

VARIABLES
    rl            \* one DelayForFailure call on an ExponentialBackoff
                  \* or one MaxOfDelay call

VARIABLES
    rh            \* the queue's failure counts and the last handled result

VARIABLES
    recPrev       \* what the previous Reconcile call read, did and returned

VARIABLES
    undo          \* the side effects of the generator's steps and the last undo

VARIABLES
    rb            \* a RetryBackoff and the delays taken from it

VARIABLES
    fin           \* the stored Resource, its managed secret, the last Reconcile

VARIABLES
    rt            \* one call of ReconcileWithRetry

VARIABLES
    infHeld       \* history: the (GVK, key) pairs ensured and not released since

VARIABLES
    infMu,        \* the goroutine that holds InformerManager.mu, if any
    infCall       \* per goroutine: its EnsureInformer or ReleaseInformer call

\* the variables of the other components
LockOthers == <<queueVars, smVars, gw, rec, infVars, clock, condVars, srVars, gate, rl, rh, infMu, infCall, recPrev, undo, rb, fin, rt, infHeld>>

\* key := fmt.Sprintf("%s#%s", providerName, secretName)
LockKey(providerName, secretName) == providerName \o <<"#">> \o secretName

\* a registry that replaces the stored mutex on every call
StoreAlways(m, key, new) ==
    [ map    |-> [k \in (DOMAIN m) \cup {key} |-> IF k = key THEN new ELSE m[k]],
      actual |-> new,
      loaded |-> FALSE ]

\* sync.Map.LoadOrStore(key, new): the existing value if present, else
\* stores and returns new; one atomic step
LoadOrStore(m, key, new) ==
    IF key \in DOMAIN m
    THEN [ map |-> m, actual |-> m[key], loaded |-> TRUE ]
    ELSE [ map    |-> [k \in (DOMAIN m) \cup {key} |-> IF k = key THEN new ELSE m[k]],
           actual |-> new,
           loaded |-> FALSE ]

LockInit ==
    /\ locks = << >>
    /\ mutexLocked = << >>
    /\ nextMu = 0
    /\ lpc = [c \in Callers |-> "idle"]
    /\ larg = [c \in Callers |-> NoArg]
    /\ lmu = [c \in Callers |-> Nil]
    /\ lunlock = [c \in Callers |-> Nil]
    /\ lerr = [c \in Callers |-> NilErr]

\* TryLock, up to and including s.locks.LoadOrStore(key, &sync.Mutex{})
TryLockLoad(c, providerName, secretName) ==
    /\ lpc[c] = "idle"
    /\ nextMu < MaxMutexes
    /\ LET key == LockKey(providerName, secretName)
           new == nextMu + 1
           r   == LoadOrStore(locks, key, new)
       IN /\ locks' = r.map
          /\ lmu' = [lmu EXCEPT ![c] = r.actual]
          /\ nextMu' = IF r.loaded THEN nextMu ELSE new
          /\ mutexLocked' = IF r.loaded THEN mutexLocked
                            ELSE [m \in 1..new |-> IF m = new THEN FALSE ELSE mutexLocked[m]]
    /\ larg' = [larg EXCEPT ![c] = <<providerName, secretName>>]
    /\ lpc' = [lpc EXCEPT ![c] = "loaded"]
    /\ lunlock' = [lunlock EXCEPT ![c] = Nil]
    /\ lerr' = [lerr EXCEPT ![c] = NilErr]
    /\ UNCHANGED LockOthers

\* an acquisition by mu.Lock(), which waits until the mutex is free
TryLockAcquireBlocking(c) ==
    /\ lpc[c] = "loaded"
    /\ ~mutexLocked[lmu[c]]
    /\ mutexLocked' = [mutexLocked EXCEPT ![lmu[c]] = TRUE]
    /\ lunlock' = [lunlock EXCEPT ![c] = lmu[c]]
    /\ lerr' = [lerr EXCEPT ![c] = NilErr]
    /\ lpc' = [lpc EXCEPT ![c] = "holding"]
    /\ UNCHANGED <<locks, nextMu, larg, lmu>>
    /\ UNCHANGED LockOthers

\* mu.TryLock() and the return of tryLock and TryLock
TryLockAcquire(c) ==
    /\ lpc[c] = "loaded"
    /\ IF mutexLocked[lmu[c]]
       THEN \* !ok: return nil, fmt.Errorf("failed to acquire lock: ...: %w", ErrConflict)
            /\ mutexLocked' = mutexLocked
            /\ lunlock' = [lunlock EXCEPT ![c] = Nil]
            /\ lerr' = [lerr EXCEPT ![c] = Wrap("failed to acquire lock", <<ErrConflict>>)]
            /\ lpc' = [lpc EXCEPT ![c] = "idle"]
       ELSE \* return unlockFunc, nil
            /\ mutexLocked' = [mutexLocked EXCEPT ![lmu[c]] = TRUE]
            /\ lunlock' = [lunlock EXCEPT ![c] = lmu[c]]
            /\ lerr' = [lerr EXCEPT ![c] = NilErr]
            /\ lpc' = [lpc EXCEPT ![c] = "holding"]
    /\ UNCHANGED <<locks, nextMu, larg, lmu>>
    /\ UNCHANGED LockOthers

\* a return that leaves the mutex locked
ReturnWithoutUnlock(c) ==
    /\ lpc[c] = "holding"
    /\ lunlock' = [lunlock EXCEPT ![c] = Nil]
    /\ lpc' = [lpc EXCEPT ![c] = "idle"]
    /\ UNCHANGED <<locks, mutexLocked, nextMu, larg, lmu, lerr>>
    /\ UNCHANGED LockOthers

\* the holder calls the unlock function it was given: mu.Unlock(); in
\* ReconcileWithTryLock this is the deferred unlock(), run at its return
Unlock(c) ==
    /\ lpc[c] = "holding"
    /\ mutexLocked' = [mutexLocked EXCEPT ![lunlock[c]] = FALSE]
    /\ lunlock' = [lunlock EXCEPT ![c] = Nil]
    /\ lpc' = [lpc EXCEPT ![c] = "idle"]
    /\ UNCHANGED <<locks, nextMu, larg, lmu, lerr>>
    /\ UNCHANGED LockOthers

LockNext ==
    \/ \E c \in Callers, p \in ProviderNames, s \in SecretNames : TryLockLoad(c, p, s)
    \/ \E c \in Callers : TryLockAcquire(c)
    \/ \E c \in Callers : Unlock(c)

\* the key of the TryLock call a caller is in, or whose lock it holds
CallKey(c) == LockKey(larg[c][1], larg[c][2])

\* the callers that hold the lock of a key
Holders(key) == { c \in Callers : lpc[c] = "holding" /\ CallKey(c) = key }

LockKeys == { LockKey(p, s) : p \in ProviderNames, s \in SecretNames }

----------------------------------------------------------------------------
(* Pattern 4: the deduplicating work queue and its worker loop *)

QueueOthers == <<lockVars, smVars, gw, rec, infVars, clock, condVars, srVars, gate, rl, rh, infMu, infCall, recPrev, undo, rb, fin, rt, infHeld>>

\* the keys (namespace/name) that events are enqueued for
QKeys == {"default/my-es-1", "default/my-es-2", "default/my-es-3"}

Workers == 1..NumWorkers

NoKey == "none"

\* how often a key occurs in a sequence
Occurrences(seq, k) == Cardinality({ i \in 1..Len(seq) : seq[i] = k })

\* an add that enqueues the key whether or not it is already waiting
QAddNoDedup(q, k) ==
    [q EXCEPT !.dirty = @ \cup {k},
              !.queue = IF k \in q.processing THEN @ ELSE Append(@, k)]

\* add(key): a no-op for a key already waiting; a key being processed is
\* only marked dirty; any other key is marked dirty and enqueued
QAdd(q, k) ==
    IF k \in q.dirty THEN q
    ELSE IF k \in q.processing THEN [q EXCEPT !.dirty = @ \cup {k}]
    ELSE [q EXCEPT !.dirty = @ \cup {k}, !.queue = Append(@, k)]

\* a get that does not record the key as being processed
QGetUntracked(q) ==
    [q EXCEPT !.queue = Tail(@), !.dirty = @ \ {Head(q.queue)}]

\* get(): takes the head of the queue, which is then being processed and
\* no longer dirty
QGet(q) ==
    [q EXCEPT !.queue = Tail(@),
              !.processing = @ \cup {Head(q.queue)},
              !.dirty = @ \ {Head(q.queue)}]

\* done(key): the key is no longer being processed; if it was marked dirty
\* meanwhile it is enqueued again
QDone(q, k) ==
    [q EXCEPT !.processing = @ \ {k},
              !.queue = IF k \in q.dirty THEN Append(@, k) ELSE @]

QueueInit ==
    /\ wq = [queue |-> <<>>, dirty |-> {}, processing |-> {}]
    /\ wkey = [w \in Workers |-> NoKey]
    /\ burst = {}
    /\ requeued = {}
    /\ outstanding = [k \in QKeys |-> 0]

\* an event source enqueues a key
Add(k) ==
    /\ wq' = QAdd(wq, k)
    /\ burst' = burst \cup {k}
    /\ outstanding' = [outstanding EXCEPT ![k] = IF k \in burst THEN @ ELSE @ + 1]
    /\ UNCHANGED <<wkey, requeued>>
    /\ UNCHANGED QueueOthers

\* worker loop step 1: queue.Get() returns a key to an idle worker
Get(w) ==
    /\ wkey[w] = NoKey
    /\ wq.queue # <<>>
    /\ wq' = QGet(wq)
    /\ wkey' = [wkey EXCEPT ![w] = Head(wq.queue)]
    /\ burst' = burst \ {Head(wq.queue)}
    /\ requeued' = requeued \ {Head(wq.queue)}
    /\ outstanding' = [outstanding EXCEPT ![Head(wq.queue)] = @ - 1]
    /\ UNCHANGED QueueOthers

\* worker loop step 4: queue.Done(item)
Done(w) ==
    /\ wkey[w] # NoKey
    /\ wq' = QDone(wq, wkey[w])
    /\ wkey' = [wkey EXCEPT ![w] = NoKey]
    /\ requeued' = IF wkey[w] \in burst THEN requeued \cup {wkey[w]} ELSE requeued
    /\ UNCHANGED <<burst, outstanding>>
    /\ UNCHANGED QueueOthers

QueueNext ==
    \/ \E k \in QKeys : Add(k)
    \/ \E w \in Workers : Get(w)
    \/ \E w \in Workers : Done(w)

----------------------------------------------------------------------------
(* Pattern 13: commit/rollback StateManager *)

SmOthers == <<lockVars, queueVars, gw, rec, infVars, clock, condVars, srVars, gate, rl, rh, infMu, infCall, recPrev, undo, rb, fin, rt, infHeld>>

\* A queued function is "nil" (absent), "ok" (returns nil) or the name of
\* the error it returns.
CommitFuncs == {"nil", "ok", "commit failed"}
RollbackFuncs == {"nil", "ok", "rollback failed"}

\* QueueItem{Rollback, Commit}
QueueItems == [Rollback : RollbackFuncs, Commit : CommitFuncs]

\* the error a called function returns
Returned(f) == IF f = "ok" THEN NilErr ELSE <<f>>

\* a commit loop that returns at the first failing commit
RECURSIVE CommitLoopStopping(_, _)
CommitLoopStopping(q, i) ==
    IF i > Len(q) THEN [calls |-> <<>>, errs |-> <<>>]
    ELSE IF q[i].Commit = "nil" THEN CommitLoopStopping(q, i + 1)
    ELSE IF Returned(q[i].Commit) # NilErr
         THEN [calls |-> <<[fn |-> "Commit", item |-> i]>>,
               errs  |-> <<Returned(q[i].Commit)>>]
    ELSE LET rest == CommitLoopStopping(q, i + 1)
         IN [calls |-> <<[fn |-> "Commit", item |-> i]>> \o rest.calls,
             errs  |-> rest.errs]

\* the loop of Commit from item i on: the calls made and the errors appended
RECURSIVE CommitLoop(_, _)
CommitLoop(q, i) ==
    IF i > Len(q) THEN [calls |-> <<>>, errs |-> <<>>]
    ELSE LET rest == CommitLoop(q, i + 1)
         IN IF q[i].Commit = "nil" THEN rest
            ELSE [calls |-> <<[fn |-> "Commit", item |-> i]>> \o rest.calls,
                  errs  |-> (IF Returned(q[i].Commit) # NilErr
                             THEN <<Returned(q[i].Commit)>> ELSE <<>>) \o rest.errs]

\* a rollback loop that returns at the first failing rollback
RECURSIVE RollbackLoopShortCircuit(_, _)
RollbackLoopShortCircuit(q, i) ==
    IF i > Len(q) THEN [calls |-> <<>>, errs |-> <<>>]
    ELSE IF q[i].Rollback = "nil" THEN RollbackLoopShortCircuit(q, i + 1)
    ELSE IF Returned(q[i].Rollback) # NilErr
         THEN [calls |-> <<[fn |-> "Rollback", item |-> i]>>,
               errs  |-> <<Returned(q[i].Rollback)>>]
    ELSE LET rest == RollbackLoopShortCircuit(q, i + 1)
         IN [calls |-> <<[fn |-> "Rollback", item |-> i]>> \o rest.calls,
             errs  |-> rest.errs]

\* the loop of Rollback from item i on
RECURSIVE RollbackLoop(_, _)
RollbackLoop(q, i) ==
    IF i > Len(q) THEN [calls |-> <<>>, errs |-> <<>>]
    ELSE LET rest == RollbackLoop(q, i + 1)
         IN IF q[i].Rollback = "nil" THEN rest
            ELSE [calls |-> <<[fn |-> "Rollback", item |-> i]>> \o rest.calls,
                  errs  |-> (IF Returned(q[i].Rollback) # NilErr
                             THEN <<Returned(q[i].Rollback)>> ELSE <<>>) \o rest.errs]

\* a Commit that empties the queue when it is done
StateManagerCommitClearing(q) ==
    [calls |-> CommitLoop(q, 1).calls,
     err   |-> ErrorsJoin(CommitLoop(q, 1).errs),
     queue |-> <<>>]

\* StateManager.Commit: the calls made, the error returned, the queue after
StateManagerCommit(q) ==
    [calls |-> CommitLoop(q, 1).calls,
     err   |-> ErrorsJoin(CommitLoop(q, 1).errs),
     queue |-> q]

\* StateManager.Rollback: the calls made, the error returned, the queue after
StateManagerRollback(q) ==
    [calls |-> RollbackLoop(q, 1).calls,
     err   |-> ErrorsJoin(RollbackLoop(q, 1).errs),
     queue |-> q]

SmInit ==
    /\ smQueue = <<>>
    /\ smCalls = <<>>
    /\ smErr = NilErr
    /\ smLast = "none"
    /\ smOps = 0
    /\ smSeen = 0
    /\ smRepeated = 0

\* StateManager.Enqueue(item)
Enqueue(item) ==
    /\ Len(smQueue) < MaxItems
    /\ smQueue' = Append(smQueue, item)
    /\ UNCHANGED <<smCalls, smErr, smLast, smOps, smSeen, smRepeated>>
    /\ UNCHANGED SmOthers

\* StateManager.Commit()
Commit ==
    /\ smOps < MaxOps
    /\ LET r == StateManagerCommit(smQueue)
       IN /\ smQueue' = r.queue
          /\ smCalls' = r.calls
          /\ smErr' = r.err
          /\ smRepeated' = Cardinality({ j \in 1..Len(r.calls) : r.calls[j].item <= smSeen })
    /\ smSeen' = Len(smQueue)
    /\ smLast' = "Commit"
    /\ smOps' = smOps + 1
    /\ UNCHANGED SmOthers

\* StateManager.Rollback()
Rollback ==
    /\ smOps < MaxOps
    /\ LET r == StateManagerRollback(smQueue)
       IN /\ smQueue' = r.queue
          /\ smCalls' = r.calls
          /\ smErr' = r.err
          /\ smRepeated' = Cardinality({ j \in 1..Len(r.calls) : r.calls[j].item <= smSeen })
    /\ smSeen' = Len(smQueue)
    /\ smLast' = "Rollback"
    /\ smOps' = smOps + 1
    /\ UNCHANGED SmOthers

SmNext ==
    \/ \E item \in QueueItems : Enqueue(item)
    \/ Commit
    \/ Rollback

----------------------------------------------------------------------------
(* Pattern 13: generateWithRollback, one attempt after another *)

GenOthers == <<lockVars, queueVars, smVars, rec, infVars, clock, condVars, srVars, gate, rl, rh, infMu, infCall, recPrev, undo, rb, fin, rt, infHeld>>

\* what the helpers standing for the cloud and cluster calls can return
CreateResults == {"ok", "create failed"}
StoreResults == {"ok", "storeState failed"}
DeleteResults == {"ok", "deleteCloudCredential failed"}
UpdateResults == {"ok", "updateReferences failed"}
RemoveResults == {"ok", "removeReferences failed"}
ValidateResults == {"ok", "credential not active", "credential access test failed"}

\* mgr := &StateManager{} at the start of an attempt
GwInit ==
    gw = [pc |-> "start", attempt |-> 1, queue |-> <<>>, calls |-> <<>>,
          validate |-> "none", err |-> NilErr]

\* cred, err := createCloudCredential(ctx); if err != nil { return err }
GenCreate(res) ==
    /\ gw.pc = "start"
    /\ gw' = IF Returned(res) # NilErr
             THEN [gw EXCEPT !.pc = "done", !.err = Returned(res)]
             ELSE [gw EXCEPT !.pc = "created"]
    /\ UNCHANGED GenOthers

\* mgr.Enqueue(QueueItem{Commit: storeState, Rollback: deleteCloudCredential})
GenEnqueueStore(store, del) ==
    /\ gw.pc = "created"
    /\ gw' = [gw EXCEPT !.pc = "queued1",
                        !.queue = Append(@, [Rollback |-> del, Commit |-> store])]
    /\ UNCHANGED GenOthers

\* mgr.Enqueue(QueueItem{Commit: updateReferences, Rollback: removeReferences})
GenEnqueueRefs(update, remove) ==
    /\ gw.pc = "queued1"
    /\ gw' = [gw EXCEPT !.pc = "queued2",
                        !.queue = Append(@, [Rollback |-> remove, Commit |-> update])]
    /\ UNCHANGED GenOthers

\* err = validateFinalState(ctx, cred); on an error mgr.Rollback() and
\* return errors.Join(err, rollbackErr)
GenValidate(res) ==
    /\ gw.pc = "queued2"
    /\ gw' = IF Returned(res) # NilErr
             THEN LET r == StateManagerRollback(gw.queue)
                  IN [gw EXCEPT !.pc = "done",
                                !.validate = res,
                                !.queue = r.queue,
                                !.calls = r.calls,
                                !.err = ErrorsJoin(<<Returned(res), r.err>>)]
             ELSE [gw EXCEPT !.pc = "validated", !.validate = res]
    /\ UNCHANGED GenOthers

\* return mgr.Commit()
GenCommit ==
    /\ gw.pc = "validated"
    /\ LET r == StateManagerCommit(gw.queue)
       IN gw' = [gw EXCEPT !.pc = "done",
                           !.queue = r.queue,
                           !.calls = r.calls,
                           !.err = r.err]
    /\ UNCHANGED GenOthers

\* the next attempt calls generateWithRollback afresh
GenAgain ==
    /\ gw.pc = "done"
    /\ gw.attempt < MaxAttempts
    /\ gw' = [pc |-> "start", attempt |-> gw.attempt + 1,
              queue |-> <<>>, calls |-> <<>>, validate |-> "none", err |-> NilErr]
    /\ UNCHANGED GenOthers

GenNext ==
    \/ \E res \in CreateResults : GenCreate(res)
    \/ \E store \in StoreResults, del \in DeleteResults : GenEnqueueStore(store, del)
    \/ \E update \in UpdateResults, remove \in RemoveResults : GenEnqueueRefs(update, remove)
    \/ \E res \in ValidateResults : GenValidate(res)
    \/ GenCommit
    \/ GenAgain

----------------------------------------------------------------------------
(* Pattern 8: refresh gating *)

RecOthers == <<lockVars, queueVars, smVars, gw, infVars, clock, condVars, srVars, gate, rl, rh, infMu, infCall, recPrev, undo, rb, fin, rt, infHeld>>

DigitChars == <<"0", "1", "2", "3", "4", "5", "6", "7", "8", "9">>

\* fmt.Sprint of an int64: its decimal digits, with a sign if negative
RECURSIVE Sprint(_)
Sprint(n) ==
    IF n < 0 THEN <<"-">> \o Sprint(0 - n)
    ELSE IF n < 10 THEN <<DigitChars[n + 1]>>
    ELSE Sprint(n \div 10) \o <<DigitChars[(n % 10) + 1]>>

\* time.Time values are instants; ZeroTime is the zero Time
ZeroTime == 0

\* t.IsZero()
IsZero(t) == t = ZeroTime

\* a periodic check that waits for more than the interval to elapse
shouldRefreshPeriodicStrict(spec, status, currentGeneration, now) ==
    IF spec.RefreshInterval <= 0 /\ status.SyncedResourceVersion # <<>> THEN FALSE
    ELSE IF status.SyncedResourceVersion # Sprint(currentGeneration) THEN TRUE
    ELSE IF IsZero(status.RefreshTime) THEN TRUE
    ELSE now - status.RefreshTime > spec.RefreshInterval

\* a periodic check that does not look at the generation
shouldRefreshPeriodicIgnoringGeneration(spec, status, currentGeneration, now) ==
    IF spec.RefreshInterval <= 0 /\ status.SyncedResourceVersion # <<>> THEN FALSE
    ELSE IF IsZero(status.RefreshTime) THEN TRUE
    ELSE now - status.RefreshTime >= spec.RefreshInterval

\* shouldRefreshPeriodic(spec, status, currentGeneration), with
\* time.Since(status.RefreshTime) taken at instant now
shouldRefreshPeriodic(spec, status, currentGeneration, now) ==
    IF spec.RefreshInterval <= 0 /\ status.SyncedResourceVersion # <<>> THEN FALSE
    ELSE IF status.SyncedResourceVersion # Sprint(currentGeneration) THEN TRUE
    ELSE IF IsZero(status.RefreshTime) THEN TRUE
    ELSE now - status.RefreshTime >= spec.RefreshInterval

\* a shouldRefresh that treats every policy as Periodic
shouldRefreshAllPeriodic(spec, status, currentGeneration, now) ==
    shouldRefreshPeriodic(spec, status, currentGeneration, now)

\* a shouldRefresh whose OnChange case does not compare the generation
shouldRefreshOnChangeOnce(spec, status, currentGeneration, now) ==
    CASE spec.RefreshPolicy \in {"CreatedOnce", "OnChange"} ->
            IF status.SyncedResourceVersion = <<>> \/ IsZero(status.RefreshTime)
            THEN TRUE ELSE FALSE
      [] OTHER -> shouldRefreshPeriodic(spec, status, currentGeneration, now)

\* shouldRefresh(spec, status, currentGeneration)
shouldRefresh(spec, status, currentGeneration, now) ==
    CASE spec.RefreshPolicy = "CreatedOnce" ->
            IF status.SyncedResourceVersion = <<>> \/ IsZero(status.RefreshTime)
            THEN TRUE ELSE FALSE
      [] spec.RefreshPolicy = "OnChange" ->
            IF status.SyncedResourceVersion = <<>> \/ IsZero(status.RefreshTime)
            THEN TRUE
            ELSE status.SyncedResourceVersion # Sprint(currentGeneration)
      [] OTHER -> shouldRefreshPeriodic(spec, status, currentGeneration, now)

\* a validity check that does not look at the data hash
isSecretValidCheckNoHash(secret, expectedDataHash) ==
    IF ~secret.Exists THEN FALSE
    ELSE IF ~secret.HasManagedLabel THEN FALSE
    ELSE TRUE

\* isSecretValidCheck(secret, expectedDataHash)
isSecretValidCheck(secret, expectedDataHash) ==
    IF ~secret.Exists THEN FALSE
    ELSE IF ~secret.HasManagedLabel THEN FALSE
    ELSE IF secret.DataHash # expectedDataHash THEN FALSE
    ELSE TRUE

----------------------------------------------------------------------------
(* Pattern 1: level-triggered Reconcile *)

RefreshPolicies == {"Periodic", "OnChange", "CreatedOnce", ""}
RefreshIntervals == {-1, 0, 2}
Generations == {3, 12}
SyncedVersions == { <<>>, <<"3">>, <<"1", "2">> }
RefreshTimes == {ZeroTime, 1, 2}
Nows == {2, 3, 4}
DataHashes == {"abc123", "xyz789"}

\* the ExternalSecret a read of the API server can return
Desireds ==
    [ spec   : [RefreshInterval : RefreshIntervals,
                RefreshPolicy   : RefreshPolicies,
                Generation      : Generations],
      status : [SyncedResourceVersion : SyncedVersions,
                RefreshTime           : RefreshTimes],
      ExpectedDataHash : DataHashes ]

\* the states the target secret can be in
SecretStates ==
    [Exists : BOOLEAN, HasManagedLabel : BOOLEAN, DataHash : DataHashes]

\* the outcomes of a read: found, NotFound, or another error
ReadResults == {"ok", "NotFound", "error"}

NoDesired ==
    [ spec   |-> [RefreshInterval |-> 0, RefreshPolicy |-> "", Generation |-> 0],
      status |-> [SyncedResourceVersion |-> <<>>, RefreshTime |-> ZeroTime],
      ExpectedDataHash |-> "" ]

NoSecret == [Exists |-> FALSE, HasManagedLabel |-> FALSE, DataHash |-> ""]

\* a Reconcile call before its first step
RecStart ==
    [pc |-> "start", desired |-> NoDesired, desiredRead |-> "none",
     secret |-> NoSecret, secretRead |-> "none", actualNil |-> TRUE,
     now |-> ZeroTime, fetchRes |-> "none", writeRes |-> "none",
     calls |-> <<>>, err |-> NilErr]

RecInit ==
    /\ rec = RecStart
    /\ recPrev = [ran |-> FALSE, call |-> RecStart]

\* needsRefresh(desired): the first gating check of Pattern 8
needsRefresh(desired, now) ==
    shouldRefresh(desired.spec, desired.status, desired.spec.Generation, now)

\* isSecretValid(actual, desired): the second gating check of Pattern 8
isSecretValid(actual, desired) ==
    isSecretValidCheck(actual, desired.ExpectedDataHash)

\* a gate that skips as soon as no refresh is due
GateSkipsOnRefreshAlone(desired, actual, now) == ~needsRefresh(desired, now)

\* a gate that also skips when the previous call succeeded
GateSkipsAfterSuccess(desired, actual, now) ==
    \/ ~needsRefresh(desired, now) /\ isSecretValid(actual, desired)
    \/ recPrev.ran /\ recPrev.call.err = NilErr

\* if !needsRefresh(desired) && isSecretValid(actual, desired) { return nil }
GateSkips(desired, actual, now) ==
    ~needsRefresh(desired, now) /\ isSecretValid(actual, desired)

\* a first step that goes on to the managed secret when the desired object
\* is gone
RecGetDesiredIgnoringNotFound(res, desired) ==
    /\ rec.pc = "start"
    /\ rec' = [rec EXCEPT
                 !.calls = Append(@, "GetExternalSecret"),
                 !.desiredRead = res,
                 !.desired = IF res = "ok" THEN desired ELSE NoDesired,
                 !.err = IF res = "error" THEN <<"GetExternalSecret failed">> ELSE NilErr,
                 !.pc = IF res = "error" THEN "done" ELSE "gotDesired"]
    /\ UNCHANGED RecOthers

\* Step 1: desired, err := r.client.GetExternalSecret(ctx, name, namespace)
RecGetDesired(res, desired) ==
    /\ rec.pc = "start"
    /\ rec' = [rec EXCEPT
                 !.calls = Append(@, "GetExternalSecret"),
                 !.desiredRead = res,
                 !.desired = IF res = "ok" THEN desired ELSE NoDesired,
                 !.err = IF res = "error" THEN <<"GetExternalSecret failed">> ELSE NilErr,
                 !.pc = IF res = "ok" THEN "gotDesired" ELSE "done"]
    /\ UNCHANGED RecOthers

\* Step 2: actual, err := r.client.GetSecret(...); secret is the state of
\* the target secret in the cluster, seen by the call unless it fails;
\* actual, the secret's data, is a nil map when the call fails and may be
\* one when it succeeds: the data map of a secret without data is nil
RecGetSecret(res, secret, actualNil) ==
    /\ rec.pc = "gotDesired"
    /\ res = "ok" => secret.Exists
    /\ res = "NotFound" => ~secret.Exists
    /\ ~secret.Exists => secret = NoSecret
    /\ res # "ok" => actualNil
    /\ rec' = [rec EXCEPT
                 !.calls = Append(@, "GetSecret"),
                 !.secretRead = res,
                 !.secret = secret,
                 !.actualNil = actualNil,
                 !.err = IF res = "error" THEN <<"GetSecret failed">> ELSE NilErr,
                 !.pc = IF res = "error" THEN "done" ELSE "gotActual"]
    /\ UNCHANGED RecOthers

\* Step 3: the gate, evaluated at instant now
RecGate(now) ==
    /\ rec.pc = "gotActual"
    /\ rec' = [rec EXCEPT
                 !.now = now,
                 !.pc = IF GateSkips(rec.desired, rec.secret, now) THEN "done" ELSE "fetch"]
    /\ UNCHANGED RecOthers

\* Step 4: data, err := fetchFromProvider(ctx, desired)
RecFetch(res) ==
    /\ rec.pc = "fetch"
    /\ rec' = [rec EXCEPT
                 !.calls = Append(@, "fetchFromProvider"),
                 !.fetchRes = res,
                 !.err = Returned(res),
                 !.pc = IF Returned(res) # NilErr THEN "done" ELSE "fetched"]
    /\ UNCHANGED RecOthers

\* Step 5: CreateSecret if actual == nil, else UpdateSecret
RecWrite(res) ==
    /\ rec.pc = "fetched"
    /\ rec' = [rec EXCEPT
                 !.calls = Append(@, IF rec.actualNil
                                     THEN "CreateSecret" ELSE "UpdateSecret"),
                 !.writeRes = res,
                 !.err = Returned(res),
                 !.pc = "done"]
    /\ UNCHANGED RecOthers

\* the work queue calls Reconcile again
RecAgain ==
    /\ rec.pc = "done"
    /\ rec' = RecStart
    /\ UNCHANGED RecOthers

\* the variables that a new call after a finished one leaves alone
RecTwiceOthers == <<lockVars, queueVars, smVars, gw, infVars, clock, condVars, srVars, gate, rl, rh, infMu, infCall, undo, rb, fin, rt, infHeld>>

\* the work queue calls Reconcile again; the finished call is kept for
\* comparison with the new one
RecAgainRemembering ==
    /\ rec.pc = "done"
    /\ recPrev' = [ran |-> TRUE, call |-> rec]
    /\ rec' = RecStart
    /\ UNCHANGED RecTwiceOthers

\* the stored states that successive calls for one key run against
TwiceDesireds ==
    { d \in Desireds :
        /\ d.spec.RefreshPolicy = "Periodic"
        /\ d.spec.RefreshInterval = 2
        /\ d.spec.Generation = 3
        /\ d.status.SyncedResourceVersion \in {<<>>, <<"3">>}
        /\ d.status.RefreshTime \in {ZeroTime, 1}
        /\ d.ExpectedDataHash = "abc123" }

TwiceSecrets == { x \in SecretStates : x.Exists /\ x.HasManagedLabel } \cup {NoSecret}

TwiceNows == {2, 3}

RecTwiceNext ==
    \/ \E res \in ReadResults, desired \in TwiceDesireds : RecGetDesired(res, desired)
    \/ \E res \in ReadResults, secret \in TwiceSecrets,
          actualNil \in BOOLEAN : RecGetSecret(res, secret, actualNil)
    \/ \E now \in TwiceNows : RecGate(now)
    \/ \E res \in {"ok", "provider failed"} : RecFetch(res)
    \/ \E res \in {"ok", "write failed"} : RecWrite(res)
    \/ RecAgainRemembering

RecNext ==
    \/ \E res \in ReadResults, desired \in Desireds : RecGetDesired(res, desired)
    \/ \E res \in ReadResults, secret \in SecretStates \cup {NoSecret},
          actualNil \in BOOLEAN : RecGetSecret(res, secret, actualNil)
    \/ \E now \in Nows : RecGate(now)
    \/ \E res \in {"ok", "provider failed"} : RecFetch(res)
    \/ \E res \in {"ok", "write failed"} : RecWrite(res)
    \/ RecAgain

----------------------------------------------------------------------------
(* Pattern 18: dynamic informers with reference counting *)

InfOthers == <<lockVars, queueVars, smVars, gw, rec, clock, condVars, srVars, gate, rl, rh, infMu, infCall, recPrev, undo, rb, fin, rt, infHeld>>

\* GroupVersionKinds: the two of demonstrateInformerManager, and two whose
\* components contain the separator
GVKs ==
    { [Group |-> <<>>, Version |-> <<"v1">>, Kind |-> <<"Secret">>],
      [Group |-> <<>>, Version |-> <<"v1">>, Kind |-> <<"ConfigMap">>],
      [Group |-> <<"g", "/", "x">>, Version |-> <<"v1">>, Kind |-> <<"K">>],
      [Group |-> <<"g">>, Version |-> <<"x", "/", "v1">>, Kind |-> <<"K">>] }

\* the ExternalSecrets that reference informers
NamespacedNames ==
    { [Namespace |-> "default", Name |-> "es-a"],
      [Namespace |-> "default", Name |-> "es-b"] }

\* GVK.String(): fmt.Sprintf("%s/%s/%s", g.Group, g.Version, g.Kind)
GVKString(g) == g.Group \o <<"/">> \o g.Version \o <<"/">> \o g.Kind

\* m without the entry of key
MapDelete(m, key) == [k \in (DOMAIN m) \ {key} |-> m[k]]

\* m with the entry of key set to value
MapSet(m, key, value) == [k \in (DOMAIN m) \cup {key} |-> IF k = key THEN value ELSE m[k]]

\* an EnsureInformer that starts a new informer on every call
EnsureInformerAlwaysNew(m, key, es, stopFunc) ==
    [ informers |-> MapSet(m, key, [stopFunc |-> stopFunc, externalSecrets |-> {es}]),
      created   |-> TRUE ]

\* EnsureInformer under m.mu: registers es with the existing entry, or
\* starts an informer (whose stop function is stopFunc) with es as first user
EnsureInformerOp(m, key, es, stopFunc) ==
    IF key \in DOMAIN m
    THEN [ informers |-> [m EXCEPT ![key].externalSecrets = @ \cup {es}],
           created   |-> FALSE ]
    ELSE [ informers |-> MapSet(m, key, [stopFunc |-> stopFunc, externalSecrets |-> {es}]),
           created   |-> TRUE ]

\* a ReleaseInformer that stops the informer but keeps its empty entry
ReleaseInformerKeepingEntry(m, key, es) ==
    IF key \notin DOMAIN m THEN [informers |-> m, stopped |-> Nil]
    ELSE LET refs == m[key].externalSecrets \ {es}
         IN [ informers |-> [m EXCEPT ![key].externalSecrets = refs],
              stopped   |-> IF refs = {} THEN m[key].stopFunc ELSE Nil ]

\* a ReleaseInformer that counts references: it drops one reference of
\* the entry whoever releases
ReleaseInformerCounting(m, key, es) ==
    IF key \notin DOMAIN m THEN [informers |-> m, stopped |-> Nil]
    ELSE LET gone == IF es \in m[key].externalSecrets THEN es
                     ELSE CHOOSE x \in m[key].externalSecrets : TRUE
             refs == m[key].externalSecrets \ {gone}
         IN IF Cardinality(refs) = 0
            THEN [informers |-> MapDelete(m, key), stopped |-> m[key].stopFunc]
            ELSE [informers |-> [m EXCEPT ![key].externalSecrets = refs], stopped |-> Nil]

\* ReleaseInformer under m.mu: the informers after the call and the stop
\* function called (Nil if none)
ReleaseInformerOp(m, key, es) ==
    IF key \notin DOMAIN m THEN [informers |-> m, stopped |-> Nil]
    ELSE LET refs == m[key].externalSecrets \ {es}
         IN IF Cardinality(refs) = 0
            THEN [informers |-> MapDelete(m, key), stopped |-> m[key].stopFunc]
            ELSE [informers |-> [m EXCEPT ![key].externalSecrets = refs], stopped |-> Nil]

\* NewInformerManager()
InfInit ==
    /\ informers = << >>
    /\ infStarted = <<>>
    /\ infStops = <<>>
    /\ infLast = [op |-> "none"]

\* m.EnsureInformer(gvk, es)
EnsureInformer(gvk, es) ==
    /\ LET key == GVKString(gvk)
           r   == EnsureInformerOp(informers, key, es, Len(infStarted) + 1)
       IN /\ r.created => Len(infStarted) < MaxInformers
          /\ informers' = r.informers
          /\ infStarted' = IF r.created THEN Append(infStarted, key) ELSE infStarted
          /\ infStops' = IF r.created THEN Append(infStops, 0) ELSE infStops
          /\ infLast' = [op |-> "EnsureInformer", key |-> key, es |-> es,
                         created |-> r.created,
                         repeated |-> (key \in DOMAIN informers
                                       /\ es \in informers[key].externalSecrets)]
    /\ UNCHANGED InfOthers

\* m.ReleaseInformer(gvk, es)
ReleaseInformer(gvk, es) ==
    /\ LET key == GVKString(gvk)
           r   == ReleaseInformerOp(informers, key, es)
       IN /\ informers' = r.informers
          /\ infStops' = IF r.stopped # Nil
                         THEN [infStops EXCEPT ![r.stopped] = @ + 1] ELSE infStops
          /\ infLast' = [op |-> "ReleaseInformer", key |-> key, es |-> es,
                         stopped |-> r.stopped,
                         exists |-> key \in DOMAIN informers,
                         member |-> (key \in DOMAIN informers
                                     /\ es \in informers[key].externalSecrets)]
    /\ UNCHANGED infStarted
    /\ UNCHANGED InfOthers

InfNext ==
    \/ \E gvk \in GVKs, es \in NamespacedNames : EnsureInformer(gvk, es)
    \/ \E gvk \in GVKs, es \in NamespacedNames : ReleaseInformer(gvk, es)

----------------------------------------------------------------------------

(* The wall clock read by time.Now() *)

ClockOthers == <<lockVars, queueVars, smVars, gw, rec, infVars, condVars, srVars, gate, rl, rh, infMu, infCall, recPrev, undo, rb, fin, rt, infHeld>>

ClockInit == clock = 1

\* time passes
Tick ==
    /\ clock < MaxClock
    /\ clock' = clock + 1
    /\ UNCHANGED ClockOthers

----------------------------------------------------------------------------
(* Pattern 12: condition management that preserves LastTransitionTime *)

CondOthers == <<lockVars, queueVars, smVars, gw, rec, infVars, srVars, gate, rl, rh, infMu, infCall, recPrev, undo, rb, fin, rt, infHeld>>

CondTypes == {"Ready", "Deleted"}
CondStatuses == {"True", "False", "Unknown"}
CondReasons == {"SecretSynced", "SecretSyncedError"}
CondMessages == {"secret synced", "could not update secret"}

\* the Condition values a caller passes to SetCondition
NewConditions ==
    [Type : CondTypes, Status : CondStatuses, Reason : CondReasons,
     Message : CondMessages, LastTransitionTime : {ZeroTime}]

\* getCondition(status, condType): the index of the first condition of that
\* type, Nil if there is none
getCondition(conditions, condType) ==
    IF \E i \in 1..Len(conditions) : conditions[i].Type = condType
    THEN CHOOSE i \in 1..Len(conditions) :
            /\ conditions[i].Type = condType
            /\ \A j \in 1..(i - 1) : conditions[j].Type # condType
    ELSE Nil

\* a filter with the test inverted: keeps the conditions of condType
filterOutConditionInverted(conditions, condType) ==
    LET Keep(c) == c.Type = condType
    IN SelectSeq(conditions, Keep)

\* filterOutCondition(conditions, condType)
filterOutCondition(conditions, condType) ==
    LET Keep(c) == c.Type # condType
    IN SelectSeq(conditions, Keep)

\* setConditionBad: stamps time.Now() on every call
setConditionBad(conditions, newCond, now) ==
    Append(filterOutCondition(conditions, newCond.Type),
           [newCond EXCEPT !.LastTransitionTime = now])

\* a SetCondition without the early return for an unchanged condition
SetConditionAlwaysReplacing(conditions, newCond, now) ==
    LET cur == getCondition(conditions, newCond.Type)
        stamped ==
            IF cur # Nil /\ conditions[cur].Status = newCond.Status
            THEN [newCond EXCEPT !.LastTransitionTime = conditions[cur].LastTransitionTime]
            ELSE [newCond EXCEPT !.LastTransitionTime = now]
    IN Append(filterOutCondition(conditions, newCond.Type), stamped)

\* SetCondition(status, newCond, resourceName) on status.Conditions, with
\* time.Now() = now; updateConditionMetric only prints
SetConditionOp(conditions, newCond, now) ==
    LET cur == getCondition(conditions, newCond.Type)
    IN IF /\ cur # Nil
          /\ conditions[cur].Status = newCond.Status
          /\ conditions[cur].Reason = newCond.Reason
          /\ conditions[cur].Message = newCond.Message
       THEN conditions
       ELSE LET stamped ==
                    IF cur # Nil /\ conditions[cur].Status = newCond.Status
                    THEN [newCond EXCEPT !.LastTransitionTime =
                                            conditions[cur].LastTransitionTime]
                    ELSE [newCond EXCEPT !.LastTransitionTime = now]
            IN Append(filterOutCondition(conditions, newCond.Type), stamped)

\* which of the three behaviours of SetCondition a call falls under
CondBranch(conditions, newCond) ==
    LET cur == getCondition(conditions, newCond.Type)
    IN IF cur = Nil THEN "new"
       ELSE IF conditions[cur].Status # newCond.Status THEN "status"
       ELSE IF /\ conditions[cur].Reason = newCond.Reason
               /\ conditions[cur].Message = newCond.Message
            THEN "unchanged"
       ELSE "reasonOrMessage"

CondInit ==
    /\ conds = <<>>
    /\ condLast = [branch |-> "none", Type |-> "", from |-> ""]

SetCondition(newCond) ==
    /\ conds' = SetConditionOp(conds, newCond, clock)
    /\ condLast' =
          LET cur == getCondition(conds, newCond.Type)
          IN [branch |-> CondBranch(conds, newCond),
              Type |-> newCond.Type,
              from |-> IF cur = Nil THEN "" ELSE conds[cur].Status]
    /\ UNCHANGED clock
    /\ UNCHANGED CondOthers

CondNext ==
    \/ \E newCond \in NewConditions : SetCondition(newCond)
    \/ Tick

----------------------------------------------------------------------------

(* Pattern 10: status subresource and the deferred status update *)

SrOthers == <<lockVars, queueVars, smVars, gw, rec, infVars, condVars, gate, rl, rh, infMu, infCall, recPrev, undo, rb, fin, rt, infHeld>>

\* the names Reconcile is called with
SrNames == {"my-es", "bad-es"}

\* what callProvider and updateTargetSecret return: "ok" or an error
ProviderResults == {"ok", "AccessDeniedException"}
UpdateSecretResults == {"ok", "the object has been modified"}

\* err.Error(): the messages of the wrap chain joined by ": "
RECURSIVE ErrorString(_)
ErrorString(err) ==
    IF Len(err) <= 1 THEN err
    ELSE <<Head(err), ": ">> \o ErrorString(Tail(err))

\* fmt.Sprintf("%s: %v", msg, err)
SprintfMsgErr(msg, err) == <<msg, ": ">> \o ErrorString(err)

\* &ESStatus{}
EmptyStatus ==
    [Conditions |-> <<>>, RefreshTime |-> ZeroTime,
     SyncedResourceVersion |-> <<>>, Binding |-> ""]

\* markDone(status, secretName), with time.Now() = now
markDone(status, secretName, now) ==
    [status EXCEPT
        !.Conditions = << [Type |-> "Ready", Status |-> "True",
                           Reason |-> "SecretSynced",
                           Message |-> <<"secret synced">>,
                           LastTransitionTime |-> now] >>,
        !.RefreshTime = now,
        !.Binding = secretName]

\* markFailed(status, msg, err), with time.Now() = now
markFailed(status, msg, err, now) ==
    [status EXCEPT
        !.Conditions = << [Type |-> "Ready", Status |-> "False",
                           Reason |-> "SecretSyncedError",
                           Message |-> SprintfMsgErr(msg, err),
                           LastTransitionTime |-> now] >>]

\* a comparison that finds every pair of statuses equal
statusEqualAlways(a, b) == TRUE

\* statusEqual(a, b)
statusEqual(a, b) == FALSE

SrInit ==
    /\ sr = [pc |-> "idle", attempt |-> 0, name |-> "",
             status |-> EmptyStatus, originalStatus |-> EmptyStatus,
             err |-> NilErr, updates |-> 0]
    /\ srWritten = <<>>

\* status := &ESStatus{}; originalStatus := *status; defer func() {...}()
SrStart(name) ==
    /\ sr.pc \in {"idle", "returned"}
    /\ sr.attempt < MaxAttempts
    /\ sr' = [pc |-> "started", attempt |-> sr.attempt + 1, name |-> name,
              status |-> EmptyStatus, originalStatus |-> EmptyStatus,
              err |-> NilErr, updates |-> 0]
    /\ UNCHANGED <<srWritten, clock>>
    /\ UNCHANGED SrOthers

\* providerData, providerErr := callProvider(ctx); on an error markFailed
\* and return providerErr
SrCallProvider(res) ==
    /\ sr.pc = "started"
    /\ sr' = IF Returned(res) # NilErr
             THEN [sr EXCEPT !.pc = "deferred",
                             !.status = markFailed(sr.status,
                                 "could not get secret data from provider",
                                 Returned(res), clock),
                             !.err = Returned(res)]
             ELSE [sr EXCEPT !.pc = "fetched"]
    /\ UNCHANGED <<srWritten, clock>>
    /\ UNCHANGED SrOthers

\* updateErr := updateTargetSecret(ctx, providerData); on an error markFailed
\* and return updateErr; otherwise markDone and return nil
SrUpdateTargetSecret(res) ==
    /\ sr.pc = "fetched"
    /\ sr' = IF Returned(res) # NilErr
             THEN [sr EXCEPT !.pc = "deferred",
                             !.status = markFailed(sr.status,
                                 "could not update secret",
                                 Returned(res), clock),
                             !.err = Returned(res)]
             ELSE [sr EXCEPT !.pc = "deferred",
                             !.status = markDone(sr.status, sr.name, clock),
                             !.err = NilErr]
    /\ UNCHANGED <<srWritten, clock>>
    /\ UNCHANGED SrOthers

\* the deferred function: skip if statusEqual(originalStatus, *status),
\* otherwise update the status subresource
SrDeferred ==
    /\ sr.pc = "deferred"
    /\ IF statusEqual(sr.originalStatus, sr.status)
       THEN /\ sr' = [sr EXCEPT !.pc = "returned"]
            /\ UNCHANGED srWritten
       ELSE /\ sr' = [sr EXCEPT !.pc = "returned", !.updates = @ + 1]
            /\ srWritten' = Append(srWritten, sr.status)
    /\ UNCHANGED clock
    /\ UNCHANGED SrOthers

SrNext ==
    \/ \E name \in SrNames : SrStart(name)
    \/ \E res \in ProviderResults : SrCallProvider(res)
    \/ \E res \in UpdateSecretResults : SrUpdateTargetSecret(res)
    \/ SrDeferred
    \/ Tick

----------------------------------------------------------------------------

(* Pattern 8: the two gating checks applied to given inputs *)

GateOthers == <<lockVars, queueVars, smVars, gw, rec, infVars, clock, condVars, srVars, rl, rh, infMu, infCall, recPrev, undo, rb, fin, rt, infHeld>>

GateSpecs ==
    [RefreshInterval : RefreshIntervals, RefreshPolicy : RefreshPolicies,
     Generation : Generations]

GateStatuses ==
    [SyncedResourceVersion : SyncedVersions, RefreshTime : RefreshTimes]

GateIdle ==
    [pc |-> "idle",
     spec |-> [RefreshInterval |-> 0, RefreshPolicy |-> "", Generation |-> 0],
     status |-> [SyncedResourceVersion |-> <<>>, RefreshTime |-> ZeroTime],
     currentGeneration |-> 0, now |-> ZeroTime,
     secret |-> NoSecret, expectedDataHash |-> "",
     refresh |-> FALSE, valid |-> FALSE]

GateInit == gate = GateIdle

\* the values ExampleRefreshGating builds: spec, status and secret, at an
\* instant now
GateInput(spec, status, currentGeneration, now, secret, expectedDataHash) ==
    /\ gate.pc = "idle"
    /\ gate' = [gate EXCEPT !.pc = "ready", !.spec = spec, !.status = status,
                            !.currentGeneration = currentGeneration,
                            !.now = now, !.secret = secret,
                            !.expectedDataHash = expectedDataHash]
    /\ UNCHANGED GateOthers

\* refresh := shouldRefresh(spec, status, currentGeneration)
GateShouldRefresh ==
    /\ gate.pc = "ready"
    /\ gate' = [gate EXCEPT
                  !.pc = "refreshed",
                  !.refresh = shouldRefresh(gate.spec, gate.status,
                                            gate.currentGeneration, gate.now)]
    /\ UNCHANGED GateOthers

\* valid := isSecretValidCheck(secret, expectedDataHash)
GateIsSecretValid ==
    /\ gate.pc = "refreshed"
    /\ gate' = [gate EXCEPT
                  !.pc = "checked",
                  !.valid = isSecretValidCheck(gate.secret, gate.expectedDataHash)]
    /\ UNCHANGED GateOthers

\* the example returns
GateReturn ==
    /\ gate.pc = "checked"
    /\ gate' = GateIdle
    /\ UNCHANGED GateOthers

GateNext ==
    \/ /\ gate.pc = "idle"
       /\ \E spec \in GateSpecs, status \in GateStatuses,
             currentGeneration \in Generations, now \in Nows,
             secret \in SecretStates, expectedDataHash \in DataHashes :
               GateInput(spec, status, currentGeneration, now, secret, expectedDataHash)
    \/ GateShouldRefresh
    \/ GateIsSecretValid
    \/ GateReturn

----------------------------------------------------------------------------

(* Pattern 15: per-item exponential backoff *)

RlOthers == <<lockVars, queueVars, smVars, gw, rec, infVars, clock, condVars, srVars, gate, rh, infMu, infCall, recPrev, undo, rb, fin, rt, infHeld>>

\* time.Duration values are counted in seconds
Second == 1
Minute == 60 * Second

\* time.Duration(math.MinInt64), about -292 years: the lowest duration,
\* kept at the lowest integer of the model
MinDuration == -2147483647

\* a second is 10^9 = 2^9 * 1953125 nanoseconds
NanosecondOddPart == 1953125

BaseDelays == {1 * Second, 2 * Second}
MaxDelays == {7 * Minute, 1 * Minute}

\* what the conversion of a float64 beyond the int64 range yields: the
\* result is implementation-dependent, math.MinInt64 on amd64 and
\* math.MaxInt64 on arm64
Float64ToInt64Overflow == {"MinInt64", "MaxInt64"}

RECURSIVE Pow2(_)
Pow2(n) == IF n = 0 THEN 1 ELSE 2 * Pow2(n - 1)

\* whether float64(base) * math.Pow(2, n), in nanoseconds, is 2^63 or more:
\* base * 10^9 * 2^n >= 2^63 iff base * 1953125 >= 2^(54 - n)
OverflowsInt64(base, n) ==
    IF n > 54 THEN base > 0
    ELSE IF 54 - n > 30 THEN FALSE
    ELSE base * NanosecondOddPart >= Pow2(54 - n)

\* float64(base) * math.Pow(2, n) for a product within the int64 range; the
\* doubling stops at the first value above limit, the only thing the caller
\* asks of such a value
RECURSIVE ScaleByPow2(_, _, _)
ScaleByPow2(d, n, limit) ==
    IF n = 0 \/ d > limit THEN d ELSE ScaleByPow2(2 * d, n - 1, limit)

\* a backoff that contributes nothing until a failure is recorded
DelayForFailureNoneAtZero(e, failures, conv) ==
    LET delay == IF OverflowsInt64(e.BaseDelay, failures)
                 THEN IF conv = "MinInt64" THEN MinDuration ELSE e.MaxDelay + 1
                 ELSE ScaleByPow2(e.BaseDelay, failures, e.MaxDelay)
    IN IF failures = 0 THEN 0
       ELSE IF delay > e.MaxDelay THEN e.MaxDelay ELSE delay

\* (e *ExponentialBackoff).DelayForFailure(failures), conv being the outcome
\* of the float64 to int64 conversion when the product is out of range
DelayForFailure(e, failures, conv) ==
    LET delay == IF OverflowsInt64(e.BaseDelay, failures)
                 THEN IF conv = "MinInt64" THEN MinDuration ELSE e.MaxDelay + 1
                 ELSE ScaleByPow2(e.BaseDelay, failures, e.MaxDelay)
    IN IF delay > e.MaxDelay THEN e.MaxDelay ELSE delay

\* what the global token bucket asks a key to wait: nothing while it has
\* tokens
BucketWaits == {0, 2 * Second}

\* the delays handed to MaxOfDelay directly
DelayValues == {-1 * Second, 0, 2 * Second, 30 * Second}
DelayLists ==
    UNION {[1..n -> DelayValues] : n \in 0..MaxLimiters}

\* the shortest of the delays
RECURSIVE MinOfDelayFrom(_, _, _)
MinOfDelayFrom(delays, i, min) ==
    IF i > Len(delays) THEN min
    ELSE MinOfDelayFrom(delays, i + 1,
                        IF delays[i] < min THEN delays[i] ELSE min)

MaxOfDelayShortest(delays) ==
    IF delays = <<>> THEN 0 ELSE MinOfDelayFrom(delays, 2, delays[1])

\* the loop of MaxOfDelay: max starts at time.Duration(0)
RECURSIVE MaxOfDelayFrom(_, _, _)
MaxOfDelayFrom(delays, i, max) ==
    IF i > Len(delays) THEN max
    ELSE MaxOfDelayFrom(delays, i + 1,
                        IF delays[i] > max THEN delays[i] ELSE max)

\* MaxOfDelay(delays ...time.Duration)
MaxOfDelay(delays) == MaxOfDelayFrom(delays, 1, 0)

RlIdle ==
    [pc |-> "idle", backoff |-> [BaseDelay |-> 0, MaxDelay |-> 0],
     failures |-> 0, delay |-> 0, delays |-> <<>>, max |-> 0]

RlInit == rl = RlIdle

\* backoff := &ExponentialBackoff{BaseDelay: ..., MaxDelay: ...} and a
\* failure count
RlInput(base, max, failures) ==
    /\ rl.pc = "idle"
    /\ rl' = [rl EXCEPT !.pc = "ready",
                        !.backoff = [BaseDelay |-> base, MaxDelay |-> max],
                        !.failures = failures]
    /\ UNCHANGED RlOthers

\* delay := backoff.DelayForFailure(i)
RlDelayForFailure(conv) ==
    /\ rl.pc = "ready"
    /\ rl' = [rl EXCEPT !.pc = "done",
                        !.delay = DelayForFailure(rl.backoff, rl.failures, conv)]
    /\ UNCHANGED RlOthers

\* workqueue.NewTypedMaxOfRateLimiter(failureRateLimiter, totalRateLimiter):
\* the longer of the per-item backoff and of the token bucket's wait
RlMaxOfLimiters(bucketWait) ==
    /\ rl.pc = "done"
    /\ rl' = [rl EXCEPT !.pc = "limited",
                        !.delays = <<rl.delay, bucketWait>>,
                        !.max = MaxOfDelay(<<rl.delay, bucketWait>>)]
    /\ UNCHANGED RlOthers

\* a call of MaxOfDelay(delays...)
RlMaxOfDelay(delays) ==
    /\ rl.pc = "idle"
    /\ rl' = [rl EXCEPT !.pc = "max",
                        !.delays = delays,
                        !.max = MaxOfDelay(delays)]
    /\ UNCHANGED RlOthers

\* the delay has been printed or handed to the queue
RlReturn ==
    /\ rl.pc \in {"done", "limited", "max"}
    /\ rl' = RlIdle
    /\ UNCHANGED RlOthers

RlNext ==
    \/ \E base \in BaseDelays, max \in MaxDelays, failures \in 0..MaxFailures :
          RlInput(base, max, failures)
    \/ \E conv \in Float64ToInt64Overflow : RlDelayForFailure(conv)
    \/ \E bucketWait \in BucketWaits : RlMaxOfLimiters(bucketWait)
    \/ \E delays \in DelayLists : RlMaxOfDelay(delays)
    \/ RlReturn

----------------------------------------------------------------------------

(***************************************************************************)
(* Result handling after Reconcile (Pattern 4): what reconcileHandler      *)
(* tells the queue for a returned (result, err), and what that does to     *)
(* the key's failure count in the queue's rate limiter.                    *)
(***************************************************************************)

RhOthers == <<lockVars, queueVars, smVars, gw, rec, infVars, clock, condVars, srVars, gate, rl, infMu, infCall, recPrev, undo, rb, fin, rt, infHeld>>

Hour == 60 * Minute

RhKeys == {"default/es-a", "default/es-b"}
RhErrs == {NilErr, <<"provider unavailable">>}

\* ReconcileResult{Requeue, RequeueAfter}
ReconcileResults ==
    [Requeue : BOOLEAN, RequeueAfter : {-1 * Second, 0, 1 * Hour}]

AddRateLimited == [op |-> "AddWithOpts", RateLimited |-> TRUE, After |-> 0]
AddAfter(d) == [op |-> "AddWithOpts", RateLimited |-> FALSE, After |-> d]
Forget == [op |-> "Forget", RateLimited |-> FALSE, After |-> 0]

\* a handler that looks at RequeueAfter before it looks at the error
reconcileHandlerRequeueAfterFirst(result, err) ==
    IF result.RequeueAfter > 0 THEN <<Forget, AddAfter(result.RequeueAfter)>>
    ELSE IF err # NilErr THEN <<AddRateLimited>>
    ELSE IF result.Requeue THEN <<AddRateLimited>>
    ELSE <<Forget>>

\* the switch of reconcileHandler: the calls made on the queue, in order
reconcileHandler(result, err) ==
    IF err # NilErr THEN <<AddRateLimited>>
    ELSE IF result.RequeueAfter > 0
         THEN <<Forget, AddAfter(result.RequeueAfter)>>
    ELSE IF result.Requeue THEN <<AddRateLimited>>
    ELSE <<Forget>>

\* the failure count of a key after one call on the queue: a rate-limited
\* add asks the rate limiter for a delay, which counts one more failure;
\* Forget resets the count; a delayed add leaves it alone
NumRequeuesAfter(n, call) ==
    IF call.op = "Forget" THEN 0
    ELSE IF call.RateLimited THEN n + 1
    ELSE n

RECURSIVE NumRequeuesAfterAll(_, _)
NumRequeuesAfterAll(n, calls) ==
    IF calls = <<>> THEN n
    ELSE NumRequeuesAfterAll(NumRequeuesAfter(n, Head(calls)), Tail(calls))

RhInit ==
    rh = [failures |-> [k \in RhKeys |-> 0], before |-> [k \in RhKeys |-> 0],
          key |-> "", err |-> NilErr,
          result |-> [Requeue |-> FALSE, RequeueAfter |-> 0], calls |-> <<>>]

\* result, err := c.Reconcile(ctx, req) followed by the switch
ReconcileHandler(key, result, err) ==
    LET calls == reconcileHandler(result, err)
        n == NumRequeuesAfterAll(rh.failures[key], calls)
    IN /\ n <= MaxRequeues
       /\ rh' = [failures |-> [rh.failures EXCEPT ![key] = n],
                 before |-> rh.failures,
                 key |-> key, err |-> err, result |-> result, calls |-> calls]
       /\ UNCHANGED RhOthers

RhNext ==
    \E key \in RhKeys, result \in ReconcileResults, err \in RhErrs :
        ReconcileHandler(key, result, err)

----------------------------------------------------------------------------

(***************************************************************************)
(* Pattern 18 under concurrency: goroutines run EnsureInformer and         *)
(* ReleaseInformer on one InformerManager, statement by statement.         *)
(***************************************************************************)

ConcOthers == <<lockVars, queueVars, smVars, gw, rec, clock, condVars, srVars, gate, rl, rh, recPrev, undo, rb, fin, rt, infHeld>>

Goroutines == {"g1", "g2"}
NoGoroutine == ""

\* the GroupVersionKinds of demonstrateInformerManager
ConcGVKs ==
    { [Group |-> <<>>, Version |-> <<"v1">>, Kind |-> <<"Secret">>],
      [Group |-> <<>>, Version |-> <<"v1">>, Kind |-> <<"ConfigMap">>] }

InfCallIdle ==
    [pc |-> "idle", op |-> "none", key |-> <<>>,
     es |-> [Namespace |-> "", Name |-> ""], exists |-> FALSE, created |-> FALSE]

ConcInit ==
    /\ infMu = NoGoroutine
    /\ infCall = [g \in Goroutines |-> InfCallIdle]

\* a goroutine calls m.EnsureInformer(gvk, es) or m.ReleaseInformer(gvk, es)
InfCallBegin(g, op, gvk, es) ==
    /\ infCall[g].pc = "idle"
    /\ infCall' = [infCall EXCEPT ![g] =
                      [InfCallIdle EXCEPT !.pc = "lock", !.op = op,
                                          !.key = GVKString(gvk), !.es = es]]
    /\ UNCHANGED <<infMu, infVars>>
    /\ UNCHANGED ConcOthers

\* an acquisition that does not exclude other holders, as m.mu.RLock()
InfMuRLock(g) ==
    /\ infCall[g].pc = "lock"
    /\ infMu' = g
    /\ infCall' = [infCall EXCEPT ![g].pc = "locked"]
    /\ UNCHANGED infVars
    /\ UNCHANGED ConcOthers

\* m.mu.Lock(): waits until no goroutine holds the mutex
InfMuLock(g) ==
    /\ infCall[g].pc = "lock"
    /\ infMu = NoGoroutine
    /\ infMu' = g
    /\ infCall' = [infCall EXCEPT ![g].pc = "locked"]
    /\ UNCHANGED infVars
    /\ UNCHANGED ConcOthers

\* key := gvk.String(); entry, exists := m.informers[key]
InfLookup(g) ==
    /\ infCall[g].pc = "locked"
    /\ infCall' = [infCall EXCEPT ![g].pc = "found",
                                  ![g].exists = (infCall[g].key \in DOMAIN informers)]
    /\ UNCHANGED <<infMu, infVars>>
    /\ UNCHANGED ConcOthers

\* the rest of EnsureInformer, on the entry the lookup found: register es
\* with it and return false, or start an informer, store its entry and
\* return true
InfEnsureApply(g) ==
    /\ infCall[g].pc = "found"
    /\ infCall[g].op = "EnsureInformer"
    /\ LET key == infCall[g].key
           es  == infCall[g].es
       IN IF infCall[g].exists
          THEN /\ informers' = IF key \in DOMAIN informers
                               THEN [informers EXCEPT ![key].externalSecrets = @ \cup {es}]
                               ELSE informers
               /\ UNCHANGED <<infStarted, infStops>>
               /\ infCall' = [infCall EXCEPT ![g].pc = "unlock", ![g].created = FALSE]
          ELSE /\ Len(infStarted) < MaxInformers
               /\ informers' = MapSet(informers, key,
                                      [stopFunc |-> Len(infStarted) + 1,
                                       externalSecrets |-> {es}])
               /\ infStarted' = Append(infStarted, key)
               /\ infStops' = Append(infStops, 0)
               /\ infCall' = [infCall EXCEPT ![g].pc = "unlock", ![g].created = TRUE]
    /\ UNCHANGED <<infMu, infLast>>
    /\ UNCHANGED ConcOthers

\* the rest of ReleaseInformer, on the entry the lookup found: return if
\* there was none, else remove es and, if no reference is left, stop the
\* informer and delete the entry
InfReleaseApply(g) ==
    /\ infCall[g].pc = "found"
    /\ infCall[g].op = "ReleaseInformer"
    /\ LET key == infCall[g].key
           es  == infCall[g].es
           r   == ReleaseInformerOp(informers, key, es)
       IN IF infCall[g].exists /\ key \in DOMAIN informers
          THEN /\ informers' = r.informers
               /\ infStops' = IF r.stopped # Nil
                              THEN [infStops EXCEPT ![r.stopped] = @ + 1]
                              ELSE infStops
          ELSE UNCHANGED <<informers, infStops>>
    /\ infCall' = [infCall EXCEPT ![g].pc = "unlock"]
    /\ UNCHANGED <<infMu, infStarted, infLast>>
    /\ UNCHANGED ConcOthers

\* defer m.mu.Unlock() and the return
InfMuUnlock(g) ==
    /\ infCall[g].pc = "unlock"
    /\ infMu' = NoGoroutine
    /\ infCall' = [infCall EXCEPT ![g] = InfCallIdle]
    /\ UNCHANGED infVars
    /\ UNCHANGED ConcOthers

ConcNext ==
    \/ \E g \in Goroutines, op \in {"EnsureInformer", "ReleaseInformer"},
          gvk \in ConcGVKs, es \in NamespacedNames : InfCallBegin(g, op, gvk, es)
    \/ \E g \in Goroutines : InfMuLock(g)
    \/ \E g \in Goroutines : InfLookup(g)
    \/ \E g \in Goroutines : InfEnsureApply(g)
    \/ \E g \in Goroutines : InfReleaseApply(g)
    \/ \E g \in Goroutines : InfMuUnlock(g)

----------------------------------------------------------------------------

(***************************************************************************)
(* Pattern 13: the rollback functions deleteCloudCredential and            *)
(* removeReferences against the side effects they undo.                    *)
(***************************************************************************)

UndoOthers == <<lockVars, queueVars, smVars, gw, rec, infVars, clock, condVars, srVars, gate, rl, rh, infMu, infCall, recPrev, rb, fin, rt, infHeld>>

\* what the delete call of the cloud or cluster API answers
ApiResults == {"ok", "NotFound", "error"}

\* a delete that reports a missing credential as an error
deleteCloudCredentialStrict(api) ==
    IF api # "ok" THEN <<"deleteCloudCredential failed">> ELSE NilErr

\* deleteCloudCredential: err := cloudClient.DeleteCredential(c.ID);
\* if err != nil && !isNotFound(err) { return err }; return nil
deleteCloudCredential(api) ==
    IF api # "ok" /\ api # "NotFound"
    THEN <<"deleteCloudCredential failed">> ELSE NilErr

\* a reference removal that reports missing references as an error
removeReferencesStrict(api) ==
    IF api # "ok" THEN <<"removeReferences failed">> ELSE NilErr

\* removeReferences: err := k8sClient.Delete(ctx, ref);
\* if apierrors.IsNotFound(err) { return nil }
removeReferences(api) ==
    IF api = "NotFound" THEN NilErr
    ELSE IF api # "ok" THEN <<"removeReferences failed">> ELSE NilErr

NoUndo == [fn |-> "none", api |-> "none", existed |-> FALSE, err |-> NilErr]

UndoInit ==
    undo = [credential |-> FALSE, stored |-> FALSE, references |-> FALSE,
            undos |-> 0, last |-> NoUndo]

\* createCloudCredential succeeded: the credential exists in the cloud
UndoCreateCredential ==
    /\ ~undo.credential
    /\ undo' = [undo EXCEPT !.credential = TRUE, !.last = NoUndo]
    /\ UNCHANGED UndoOthers

\* the commit of step 1 ran: storeState persisted the state
UndoStoreState ==
    /\ undo.credential /\ ~undo.stored
    /\ undo' = [undo EXCEPT !.stored = TRUE, !.last = NoUndo]
    /\ UNCHANGED UndoOthers

\* the commit of step 2 ran: updateReferences created the references
UndoUpdateReferences ==
    /\ undo.credential /\ ~undo.references
    /\ undo' = [undo EXCEPT !.references = TRUE, !.last = NoUndo]
    /\ UNCHANGED UndoOthers

\* the rollback of step 1 runs; the API answers NotFound exactly when it
\* is reached and the credential is not there
UndoDeleteCloudCredential(api) ==
    /\ undo.undos < MaxUndos
    /\ api = "NotFound" => ~undo.credential
    /\ api = "ok" => undo.credential
    /\ undo' = [undo EXCEPT
                  !.credential = IF api = "ok" THEN FALSE ELSE @,
                  !.undos = @ + 1,
                  !.last = [fn |-> "deleteCloudCredential", api |-> api,
                            existed |-> undo.credential,
                            err |-> deleteCloudCredential(api)]]
    /\ UNCHANGED UndoOthers

\* the rollback of step 2 runs
UndoRemoveReferences(api) ==
    /\ undo.undos < MaxUndos
    /\ api = "NotFound" => ~undo.references
    /\ api = "ok" => undo.references
    /\ undo' = [undo EXCEPT
                  !.references = IF api = "ok" THEN FALSE ELSE @,
                  !.undos = @ + 1,
                  !.last = [fn |-> "removeReferences", api |-> api,
                            existed |-> undo.references,
                            err |-> removeReferences(api)]]
    /\ UNCHANGED UndoOthers

UndoNext ==
    \/ UndoCreateCredential
    \/ UndoStoreState
    \/ UndoUpdateReferences
    \/ \E api \in ApiResults : UndoDeleteCloudCredential(api)
    \/ \E api \in ApiResults : UndoRemoveReferences(api)

----------------------------------------------------------------------------

(***************************************************************************)
(* Pattern 14: RetryBackoff, the explicit exponential backoff of           *)
(* ReconcileWithRetry.  Durations are counted in milliseconds.             *)
(***************************************************************************)

RbOthers == <<lockVars, queueVars, smVars, gw, rec, infVars, clock, condVars, srVars, gate, rl, rh, infMu, infCall, recPrev, undo, fin, rt, infHeld>>

Millisecond == 1

\* the parameters of NewRetryBackoff: those of ReconcileWithRetry, another
\* factor, and a base above the maximum
RbBases == {100 * Millisecond, 20000 * Millisecond}
RbMaxDelays == {10000 * Millisecond}
RbFactors == {2, 3}

\* NewRetryBackoff(base, maxDelay, factor)
NewRetryBackoff(base, maxDelay, factor) ==
    [base |-> base, maxDelay |-> maxDelay, factor |-> factor, current |-> base]

\* a NextDelay that lets the delay grow without bound
NextDelayUncapped(b) ==
    [delay |-> b.current,
     b     |-> [b EXCEPT !.current = b.current * b.factor]]

\* (b *RetryBackoff).NextDelay(): the delay returned and the backoff after
NextDelay(b) ==
    LET delay == b.current
        next  == b.current * b.factor
    IN [delay |-> delay,
        b     |-> [b EXCEPT !.current = IF next > b.maxDelay
                                        THEN b.maxDelay ELSE next]]

\* (b *RetryBackoff).Reset()
Reset(b) == [b EXCEPT !.current = b.base]

RbNone == [base |-> 0, maxDelay |-> 0, factor |-> 0, current |-> 0]

RbInit ==
    rb = [made |-> FALSE, b |-> RbNone, taken |-> <<>>, resets |-> 0]

\* backoff := NewRetryBackoff(...)
RbNew(base, maxDelay, factor) ==
    /\ ~rb.made
    /\ rb' = [made |-> TRUE, b |-> NewRetryBackoff(base, maxDelay, factor),
              taken |-> <<>>, resets |-> 0]
    /\ UNCHANGED RbOthers

\* delay := backoff.NextDelay(); taken holds the delays since the last reset
RbNextDelay ==
    /\ rb.made
    /\ Len(rb.taken) < MaxDelaysTaken
    /\ LET r == NextDelay(rb.b)
       IN rb' = [rb EXCEPT !.b = r.b, !.taken = Append(@, r.delay)]
    /\ UNCHANGED RbOthers

\* backoff.Reset()
RbReset ==
    /\ rb.made
    /\ rb.taken # <<>>
    /\ rb.resets < MaxOps
    /\ rb' = [rb EXCEPT !.b = Reset(rb.b), !.taken = <<>>, !.resets = @ + 1]
    /\ UNCHANGED RbOthers

RbNext ==
    \/ \E base \in RbBases, maxDelay \in RbMaxDelays, factor \in RbFactors :
          RbNew(base, maxDelay, factor)
    \/ RbNextDelay
    \/ RbReset

----------------------------------------------------------------------------

(***************************************************************************)
(* Pattern 3: FinalizerReconciler.Reconcile against the stored Resource.   *)
(***************************************************************************)

FinOthers == <<lockVars, queueVars, smVars, gw, rec, infVars, clock, condVars, srVars, gate, rl, rh, infMu, infCall, recPrev, undo, rb, rt, infHeld>>

MyFinalizer == "mycontroller.example.com/cleanup"
OtherFinalizer == "other.example.com/protect"

DeletionPolicies == {"Delete", "Retain", ""}

\* hasFinalizer(r, finalizer)
hasFinalizer(fs, finalizer) == \E i \in 1..Len(fs) : fs[i] = finalizer

\* addFinalizer(r, finalizer)
addFinalizer(fs, finalizer) ==
    IF ~hasFinalizer(fs, finalizer) THEN Append(fs, finalizer) ELSE fs

\* removeFinalizer(r, finalizer): the other finalizers, in order
RECURSIVE removeFinalizer(_, _)
removeFinalizer(fs, finalizer) ==
    IF fs = <<>> THEN <<>>
    ELSE IF Head(fs) # finalizer
         THEN <<Head(fs)>> \o removeFinalizer(Tail(fs), finalizer)
         ELSE removeFinalizer(Tail(fs), finalizer)

\* what r.client.Update(ctx, resource) leaves stored: the finalizers sent;
\* an object marked for deletion is removed once it has no finalizer left
Updated(stored, fs) ==
    [stored EXCEPT !.Finalizers = fs,
                   !.exists = ~(stored.deleting /\ fs = <<>>)]

\* a Reconcile that removes the finalizer whatever the cleanup returned
FinalizerReconcileIgnoringCleanup(stored, get, del, upd) ==
    IF get # "ok"
    THEN [calls |-> <<"Get">>, stored |-> stored, deleted |-> FALSE,
          err |-> IF get = "NotFound" THEN NilErr ELSE <<"Get failed">>]
    ELSE LET fs == removeFinalizer(stored.Finalizers, MyFinalizer)
         IN [calls |-> <<"Get", "DeleteSecret", "Update">>,
             stored |-> IF Returned(upd) = NilErr THEN Updated(stored, fs) ELSE stored,
             deleted |-> Returned(del) = NilErr,
             err |-> Returned(upd)]

\* FinalizerReconciler.Reconcile: the calls made on the client in order,
\* the Resource stored afterwards, whether the managed secret was deleted,
\* and the error returned; get, del and upd are what Get, DeleteSecret and
\* Update answer
FinalizerReconcile(stored, get, del, upd) ==
    IF get # "ok"
    THEN [calls |-> <<"Get">>, stored |-> stored, deleted |-> FALSE,
          err |-> IF get = "NotFound" THEN NilErr ELSE <<"Get failed">>]
    ELSE IF stored.deleting
    THEN IF hasFinalizer(stored.Finalizers, MyFinalizer)
         THEN IF stored.DeletionPolicy = "Delete" /\ Returned(del) # NilErr
              THEN [calls |-> <<"Get", "DeleteSecret">>, stored |-> stored,
                    deleted |-> FALSE, err |-> Returned(del)]
              ELSE LET fs == removeFinalizer(stored.Finalizers, MyFinalizer)
                       cleanup == IF stored.DeletionPolicy = "Delete"
                                  THEN <<"DeleteSecret">> ELSE <<>>
                   IN [calls |-> <<"Get">> \o cleanup \o <<"Update">>,
                       stored |-> IF Returned(upd) = NilErr
                                  THEN Updated(stored, fs) ELSE stored,
                       deleted |-> stored.DeletionPolicy = "Delete",
                       err |-> Returned(upd)]
         ELSE [calls |-> <<"Get">>, stored |-> stored, deleted |-> FALSE,
               err |-> NilErr]
    ELSE IF ~hasFinalizer(stored.Finalizers, MyFinalizer)
         THEN LET fs == addFinalizer(stored.Finalizers, MyFinalizer)
              IN [calls |-> <<"Get", "Update">>,
                  stored |-> IF Returned(upd) = NilErr
                             THEN Updated(stored, fs) ELSE stored,
                  deleted |-> FALSE,
                  err |-> Returned(upd)]
         ELSE [calls |-> <<"Get">>, stored |-> stored, deleted |-> FALSE,
               err |-> NilErr]

NoResource ==
    [exists |-> FALSE, deleting |-> FALSE, Finalizers |-> <<>>, DeletionPolicy |-> ""]

\* no Reconcile has run since the object last changed
NoReconcile ==
    [ran |-> FALSE, before |-> NoResource, get |-> "none",
     del |-> "none", upd |-> "none", calls |-> <<>>, err |-> NilErr]

FinInit ==
    fin = [stored |-> NoResource, secret |-> FALSE, last |-> NoReconcile]

\* the user creates the object, possibly with a finalizer of someone else
FinCreate(policy, fs) ==
    /\ ~fin.stored.exists
    /\ fin' = [fin EXCEPT
                 !.stored = [exists |-> TRUE, deleting |-> FALSE,
                             Finalizers |-> fs, DeletionPolicy |-> policy],
                 !.secret = TRUE,
                 !.last = NoReconcile]
    /\ UNCHANGED FinOthers

\* kubectl delete: the API server sets DeletionTimestamp, or removes the
\* object at once if it has no finalizer
FinDelete ==
    /\ fin.stored.exists /\ ~fin.stored.deleting
    /\ fin' = [fin EXCEPT
                 !.stored = IF fin.stored.Finalizers = <<>> THEN NoResource
                            ELSE [fin.stored EXCEPT !.deleting = TRUE],
                 !.last = NoReconcile]
    /\ UNCHANGED FinOthers

\* the controller of the other finalizer removes it
FinOtherRemoved ==
    /\ fin.stored.exists /\ fin.stored.deleting
    /\ hasFinalizer(fin.stored.Finalizers, OtherFinalizer)
    /\ LET s == Updated(fin.stored,
                        removeFinalizer(fin.stored.Finalizers, OtherFinalizer))
       IN fin' = [fin EXCEPT !.stored = IF s.exists THEN s ELSE NoResource,
                             !.last = NoReconcile]
    /\ UNCHANGED FinOthers

\* r.Reconcile(ctx, name, namespace)
FinReconcile(get, del, upd) ==
    /\ get = "ok" => fin.stored.exists
    /\ get = "NotFound" => ~fin.stored.exists
    /\ LET r == FinalizerReconcile(fin.stored, get, del, upd)
       IN fin' = [stored |-> IF r.stored.exists THEN r.stored ELSE NoResource,
                  secret |-> fin.secret /\ ~r.deleted,
                  last |-> [ran |-> TRUE, before |-> fin.stored, get |-> get,
                            del |-> del, upd |-> upd,
                            calls |-> r.calls, err |-> r.err]]
    /\ UNCHANGED FinOthers

FinNext ==
    \/ \E policy \in DeletionPolicies, fs \in {<<>>, <<OtherFinalizer>>} :
          FinCreate(policy, fs)
    \/ FinDelete
    \/ FinOtherRemoved
    \/ \E get \in ReadResults, del \in {"ok", "DeleteSecret failed"},
          upd \in {"ok", "Update failed"} : FinReconcile(get, del, upd)

----------------------------------------------------------------------------

(***************************************************************************)
(* ReconcileWithRetry: the explicit retry loop around ReconcileWithTryLock.*)
(***************************************************************************)

RtOthers == <<lockVars, queueVars, smVars, gw, rec, infVars, clock, condVars, srVars, gate, rl, rh, infMu, infCall, recPrev, undo, rb, fin, infHeld>>

\* the maxRetries a caller may pass, zero and a negative number included
RtMaxRetries == (0 - 1)..MaxRetriesGiven

\* the error TryLock returns when the mutex is held: the message wrapping
\* ErrConflict with %w
TryLockConflict == Wrap("failed to acquire lock", <<ErrConflict>>)

\* ReconcileWithTryLock: held is whether the key's mutex is locked by
\* someone else at the attempt, work is what the protected update returns
ReconcileWithTryLock(held, work) ==
    IF held THEN TryLockConflict ELSE Returned(work)

\* fmt.Errorf("failed after %d retries: %w", maxRetries, lastErr); with a
\* nil lastErr the result wraps nothing
FailedAfterRetries(lastErr) == Wrap("failed after retries", lastErr)

RtIdle ==
    [pc |-> "idle", providerName |-> <<>>, secretName |-> <<>>, maxRetries |-> 0, attempt |-> 0, outcomes |-> <<>>,
     slept |-> <<>>, backoff |-> RbNone, lastErr |-> NilErr, err |-> NilErr]

RtInit == rt = RtIdle

\* entry: backoff := NewRetryBackoff(100ms, 10s, 2.0); var lastErr error
RtStart(providerName, secretName, maxRetries) ==
    /\ rt.pc \in {"idle", "returned"}
    /\ rt' = [RtIdle EXCEPT !.pc = "loop", !.maxRetries = maxRetries,
                            !.providerName = providerName,
                            !.secretName = secretName,
                            !.backoff = NewRetryBackoff(100 * Millisecond,
                                                        10000 * Millisecond, 2)]
    /\ UNCHANGED RtOthers

\* one iteration of the loop: the attempt, then return, or sleep and go on
RtAttempt(held, work) ==
    /\ rt.pc = "loop" /\ rt.attempt < rt.maxRetries
    /\ LET err == ReconcileWithTryLock(held, work)
           d == NextDelay(rt.backoff)
       IN rt' = IF err = NilErr
                THEN [rt EXCEPT !.pc = "returned", !.err = NilErr,
                                !.outcomes = Append(@, err)]
                ELSE IF ~ErrorsIs(err, ErrConflict)
                THEN [rt EXCEPT !.pc = "returned", !.err = err,
                                !.outcomes = Append(@, err)]
                ELSE [rt EXCEPT !.outcomes = Append(@, err),
                                !.slept = Append(@, d.delay),
                                !.backoff = d.b,
                                !.lastErr = err,
                                !.attempt = @ + 1]
    /\ UNCHANGED RtOthers

\* the loop condition fails: return the wrapped last error
RtExhausted ==
    /\ rt.pc = "loop" /\ ~(rt.attempt < rt.maxRetries)
    /\ rt' = [rt EXCEPT !.pc = "returned", !.err = FailedAfterRetries(rt.lastErr)]
    /\ UNCHANGED RtOthers

RtNext ==
    \/ \E providerName \in ProviderNames, secretName \in SecretNames,
          maxRetries \in RtMaxRetries : RtStart(providerName, secretName, maxRetries)
    \/ \E held \in BOOLEAN, work \in {"ok", "update failed"} : RtAttempt(held, work)
    \/ RtExhausted

----------------------------------------------------------------------------

(***************************************************************************)
(* Pattern 18 with the history of who holds which GVK, and IsManaged.      *)
(***************************************************************************)

InfHeldOthers == <<lockVars, queueVars, smVars, gw, rec, clock, condVars, srVars, gate, rl, rh, infMu, infCall, recPrev, undo, rb, fin, rt>>

\* m.IsManaged(gvk): _, exists := m.informers[gvk.String()]
IsManaged(m, gvk) == GVKString(gvk) \in DOMAIN m

\* the GVKs of this history: one of the demonstration, and the two whose
\* String() is the same
HeldGVKs ==
    { [Group |-> <<>>, Version |-> <<"v1">>, Kind |-> <<"Secret">>],
      [Group |-> <<"g", "/", "x">>, Version |-> <<"v1">>, Kind |-> <<"K">>],
      [Group |-> <<"g">>, Version |-> <<"x", "/", "v1">>, Kind |-> <<"K">>] }

InfHeldInit == infHeld = [byGVK |-> {}, byKey |-> {}]

\* m.EnsureInformer(gvk, es), remembering that es now holds gvk
EnsureInformerHeld(gvk, es) ==
    /\ LET key == GVKString(gvk)
           r   == EnsureInformerOp(informers, key, es, Len(infStarted) + 1)
       IN /\ r.created => Len(infStarted) < MaxInformers
          /\ informers' = r.informers
          /\ infStarted' = IF r.created THEN Append(infStarted, key) ELSE infStarted
          /\ infStops' = IF r.created THEN Append(infStops, 0) ELSE infStops
          /\ infLast' = [op |-> "EnsureInformer", key |-> key, es |-> es,
                         created |-> r.created,
                         repeated |-> (key \in DOMAIN informers
                                       /\ es \in informers[key].externalSecrets)]
          /\ infHeld' = [byGVK |-> infHeld.byGVK \cup {<<gvk, es>>},
                         byKey |-> infHeld.byKey \cup {<<key, es>>}]
    /\ UNCHANGED InfHeldOthers

\* m.ReleaseInformer(gvk, es), remembering that es no longer holds gvk
ReleaseInformerHeld(gvk, es) ==
    /\ LET key == GVKString(gvk)
           r   == ReleaseInformerOp(informers, key, es)
       IN /\ informers' = r.informers
          /\ infStops' = IF r.stopped # Nil
                         THEN [infStops EXCEPT ![r.stopped] = @ + 1] ELSE infStops
          /\ infLast' = [op |-> "ReleaseInformer", key |-> key, es |-> es,
                         stopped |-> r.stopped,
                         exists |-> key \in DOMAIN informers,
                         member |-> (key \in DOMAIN informers
                                     /\ es \in informers[key].externalSecrets)]
          /\ infHeld' = [byGVK |-> infHeld.byGVK \ {<<gvk, es>>},
                         byKey |-> infHeld.byKey \ {<<key, es>>}]
    /\ UNCHANGED infStarted
    /\ UNCHANGED InfHeldOthers

InfHeldNext ==
    \/ \E gvk \in HeldGVKs, es \in NamespacedNames : EnsureInformerHeld(gvk, es)
    \/ \E gvk \in HeldGVKs, es \in NamespacedNames : ReleaseInformerHeld(gvk, es)

----------------------------------------------------------------------------

vars == <<lockVars, queueVars, smVars, gw, rec, infVars, clock, condVars, srVars, gate, rl, rh, infMu, infCall, recPrev, undo, rb, fin, rt, infHeld>>

Init ==
    /\ LockInit /\ QueueInit /\ SmInit /\ GwInit /\ RecInit /\ InfInit
    /\ ClockInit /\ CondInit /\ SrInit /\ GateInit /\ RlInit /\ RhInit /\ ConcInit /\ UndoInit /\ RbInit /\ FinInit /\ RtInit /\ InfHeldInit

SpecSM == Init /\ [][SmNext]_vars

SpecGen == Init /\ [][GenNext]_vars

SpecRec == Init /\ [][RecNext]_vars

SpecInf == Init /\ [][InfNext]_vars

SpecQueue == Init /\ [][QueueNext]_vars

\* every worker keeps running its loop
FairSpecQueue ==
    /\ SpecQueue
    /\ \A w \in Workers : WF_vars(Get(w)) /\ WF_vars(Done(w))

SpecLock == Init /\ [][LockNext]_vars

SpecCond == Init /\ [][CondNext]_vars

SpecStatus == Init /\ [][SrNext]_vars

SpecGate == Init /\ [][GateNext]_vars

SpecRate == Init /\ [][RlNext]_vars

SpecHandler == Init /\ [][RhNext]_vars

SpecRecTwice == Init /\ [][RecTwiceNext]_vars

SpecUndo == Init /\ [][UndoNext]_vars

SpecBackoff == Init /\ [][RbNext]_vars

SpecFinalizer == Init /\ [][FinNext]_vars

SpecRetry == Init /\ [][RtNext]_vars

SpecInfHeld == Init /\ [][InfHeldNext]_vars

SpecInfConc == Init /\ [][ConcNext]_vars

----------------------------------------------------------------------------
(* Claims about the lock manager *)

\* C1: a caller inside TryLock can always take its step (it never waits),
\* and a TryLock made while another caller holds the lock of the same key
\* completes in that step with a nil unlock function and an error that
\* errors.Is matches with ErrConflict, and leaves every mutex and every
\* holder as they were; a holder's mutex stays locked while it holds it.
C1_TryLockConflict ==
  /\ [](\A c \in Callers : lpc[c] = "loaded" => ENABLED TryLockAcquire(c))
  /\
    [][\A c \in Callers :
         /\ ( /\ lpc[c] = "loaded"
              /\ lpc'[c] # "loaded"
              /\ \E d \in Callers \ {c} : d \in Holders(CallKey(c)) )
            => /\ lpc'[c] = "idle"
               /\ lunlock'[c] = Nil
               /\ ErrorsIs(lerr'[c], ErrConflict)
               /\ mutexLocked' = mutexLocked
               /\ \A d \in Callers \ {c} :
                     lpc'[d] = lpc[d] /\ lunlock'[d] = lunlock[d]
         /\ (lpc[c] = "holding" /\ lpc'[c] = "holding")
            => /\ lunlock'[c] = lunlock[c]
               /\ mutexLocked'[lunlock'[c]]
      ]_vars

\* C1 witness: caller 2 was refused with ErrConflict while caller 1 holds
\* the lock of the same key
C1_Witness ==
    /\ lpc[1] = "holding"
    /\ lpc[2] = "idle"
    /\ ErrorsIs(lerr[2], ErrConflict)
    /\ lunlock[2] = Nil
    /\ CallKey(2) = CallKey(1)

\* C4: the callers inside TryLock for one key all work on the one mutex
\* the registry holds for that key, and at most one caller holds the lock
\* of a key at a time.
C4_OneHolderPerKey ==
    /\ \A c \in Callers :
         lpc[c] \in {"loaded", "holding"} =>
            /\ CallKey(c) \in DOMAIN locks
            /\ lmu[c] = locks[CallKey(c)]
    /\ \A key \in LockKeys : Cardinality(Holders(key)) <= 1

\* C4 witness: two callers are inside TryLock for the same key, which was
\* first stored by one of these two calls; one has acquired the mutex and
\* the other is about to try
C4_Witness ==
    /\ lpc[1] = "holding"
    /\ lpc[2] = "loaded"
    /\ CallKey(1) = CallKey(2)
    /\ nextMu = 1
    /\ lerr[1] = NilErr /\ lerr[2] = NilErr

----------------------------------------------------------------------------
(* Claims about the work queue *)

\* the workers that hold a key between get and done
HeldBy(k) == { w \in Workers : wkey[w] = k }

\* the state part of C2
C2_Collapsed ==
    \A k \in QKeys :
        /\ outstanding[k] = (IF k \in burst THEN 1 ELSE 0)
        /\ Occurrences(wq.queue, k) = (IF k \in burst /\ HeldBy(k) = {} THEN 1 ELSE 0)

\* C2: every burst of add calls for a key between two dequeues of that key
\* leads to exactly one dequeue: the bursts opened and the dequeues made
\* differ by one while a burst is open and by nothing otherwise; the key
\* waits in the queue exactly once when a burst is open and no worker holds
\* it, and not at all otherwise (so adds made during processing are
\* dequeued once, after done); and an open burst is eventually dequeued.
C2_BurstDequeuedOnce ==
    /\ []C2_Collapsed
    /\ \A k \in QKeys : (k \in burst) ~> (k \notin burst)

\* C2 witness: a key was added while a worker was processing it and the
\* worker has called done: the key waits in the queue once
C2_Witness ==
    \E k \in QKeys :
        /\ k \in burst
        /\ k \in requeued
        /\ HeldBy(k) = {}
        /\ wq.queue = <<k>>
        /\ outstanding[k] = 1
        /\ wq.processing = {}

\* C3: no key is held by two workers at once
C3_OneWorkerPerKey ==
    \A k \in QKeys : Cardinality(HeldBy(k)) <= 1

\* C3 witness: one worker holds a key that was added again meanwhile, and
\* the other worker is idle although the key is dirty
C3_Witness ==
    \E k \in QKeys :
        /\ wkey[1] = k
        /\ wkey[2] = NoKey
        /\ k \in wq.dirty
        /\ k \in wq.processing

----------------------------------------------------------------------------
(* Claims about the StateManager *)

\* the items of a queue that have a rollback function
WithRollback(q) == { i \in 1..Len(q) : q[i].Rollback # "nil" }

\* the items of a queue whose rollback function returns an error
FailingRollback(q) == { i \in WithRollback(q) : Returned(q[i].Rollback) # NilErr }

\* the items of a queue that have a commit function
WithCommit(q) == { i \in 1..Len(q) : q[i].Commit # "nil" }

\* C7: Rollback calls the rollback function of every queued item that has
\* one exactly once, whatever the earlier ones returned, calls nothing
\* else, and returns the join of the rollback errors: one per failing
\* rollback, nil exactly when none failed.
C7_RollbackAll ==
    [][(smOps' = smOps + 1 /\ smLast' = "Rollback") =>
         /\ \A i \in WithRollback(smQueue) :
               Cardinality({ j \in 1..Len(smCalls') : smCalls'[j].item = i }) = 1
         /\ \A j \in 1..Len(smCalls') :
               smCalls'[j].fn = "Rollback" /\ smCalls'[j].item \in WithRollback(smQueue)
         /\ Len(smErr') = Cardinality(FailingRollback(smQueue))
         /\ \A i \in FailingRollback(smQueue) : ErrorsIs(smErr', smQueue[i].Rollback)
         /\ (smErr' = NilErr) <=> (FailingRollback(smQueue) = {})
      ]_vars

\* C7 witness: a Rollback whose first rollback failed still called the
\* second one, which failed too, and returned both errors
C7_Witness ==
    /\ smLast = "Rollback"
    /\ Len(smQueue) = 2
    /\ FailingRollback(smQueue) = {1, 2}
    /\ smCalls = <<[fn |-> "Rollback", item |-> 1], [fn |-> "Rollback", item |-> 2]>>
    /\ Len(smErr) = 2

\* C8 as stated: a Commit or Rollback never invokes a function of an item
\* that an earlier Commit or Rollback on the same manager went through.
C8_NothingInvokedAgain == smRepeated = 0

\* C8 amended: Commit and Rollback leave the queue as it is, so a later
\* Commit or Rollback invokes again every commit (rollback) function of
\* the items that an earlier one went through.
C8_QueueKept ==
    [][(smOps' = smOps + 1) =>
         /\ smQueue' = smQueue
         /\ smRepeated' = Cardinality({ i \in 1..smSeen :
                 IF smLast' = "Commit" THEN i \in WithCommit(smQueue)
                                       ELSE i \in WithRollback(smQueue) })
      ]_vars

\* C8 witness: the second operation on a manager invoked both functions
\* that the first operation had gone through
C8_Witness ==
    /\ smOps = 2
    /\ smSeen = 2
    /\ smRepeated = 2
    /\ Len(smCalls) = 2

\* the commit calls of an attempt that returned an error
GenFailedCommits ==
    { j \in 1..Len(gw.calls) :
        gw.calls[j].fn = "Commit" /\ Returned(gw.queue[gw.calls[j].item].Commit) # NilErr }

\* the items whose rollback function an attempt called
GenRolledBack ==
    { gw.calls[j].item : j \in { n \in 1..Len(gw.calls) : gw.calls[n].fn = "Rollback" } }

\* C6: when generateWithRollback returns after a queued commit function
\* returned an error, the rollback function of every queued item has been
\* run.
C6_RollbackOnCommitFailure ==
    (gw.pc = "done" /\ GenFailedCommits # {}) =>
        GenRolledBack = 1..Len(gw.queue)

----------------------------------------------------------------------------
(* Claims about Reconcile and the refresh gate *)

\* Reconcile called the provider
RecFetched == \E i \in 1..Len(rec.calls) : rec.calls[i] = "fetchFromProvider"

\* no refresh is due for what Reconcile read
RecNoRefreshDue ==
    ~shouldRefresh(rec.desired.spec, rec.desired.status, rec.desired.spec.Generation, rec.now)

\* the target secret exists, is managed and carries the expected data hash
RecSecretValid ==
    /\ rec.secret.Exists
    /\ rec.secret.HasManagedLabel
    /\ rec.secret.DataHash = rec.desired.ExpectedDataHash

\* C5 as stated: in every finished attempt that found the desired object,
\* the provider fetch was skipped iff no refresh is due and the managed
\* secret is valid.
C5_SkipIffGate ==
    (rec.pc = "done" /\ rec.desiredRead = "ok") =>
        (~RecFetched <=> (RecNoRefreshDue /\ RecSecretValid))

\* C5 amended: in every finished attempt that found the desired object and
\* whose read of the managed secret succeeded or returned NotFound, the
\* provider fetch was skipped iff no refresh is due and the managed secret
\* is valid; so a secret whose data hash differs from the expected one is
\* fetched again also when no refresh is due.
C5_SkipIffGateAfterReads ==
    (rec.pc = "done" /\ rec.desiredRead = "ok" /\ rec.secretRead # "error") =>
        /\ ~RecFetched <=> (RecNoRefreshDue /\ RecSecretValid)
        /\ (rec.secret.Exists /\ rec.secret.DataHash # rec.desired.ExpectedDataHash)
              => RecFetched

\* C5 witness: generation unchanged and interval not elapsed, the secret
\* exists with the managed label but another data hash: the provider was
\* called
C5_Witness ==
    /\ rec.pc = "done"
    /\ rec.desired.spec.RefreshPolicy = "Periodic"
    /\ rec.desired.spec.RefreshInterval = 2
    /\ rec.desired.spec.Generation = 12
    /\ rec.desired.status.SyncedResourceVersion = <<"1", "2">>
    /\ rec.desired.status.RefreshTime = 2
    /\ rec.now = 3
    /\ RecNoRefreshDue
    /\ rec.secret.Exists /\ rec.secret.HasManagedLabel
    /\ rec.secret.DataHash # rec.desired.ExpectedDataHash
    /\ RecFetched

----------------------------------------------------------------------------
(* Claims about the InformerManager *)

\* the informers started so far, named by their stop functions
StartedInformers == 1..Len(infStarted)

\* the keys whose entry holds the informer with stop function id
EntriesOf(id) == { key \in DOMAIN informers : informers[key].stopFunc = id }

C9_StopState ==
    \A id \in StartedInformers :
        IF EntriesOf(id) # {}
        THEN /\ infStops[id] = 0
             /\ \A key \in EntriesOf(id) : informers[key].externalSecrets # {}
        ELSE infStops[id] = 1

C9_StopStep ==
    \A id \in StartedInformers :
        infStops'[id] # infStops[id] =>
            /\ infStops'[id] = infStops[id] + 1
            /\ infLast'.op = "ReleaseInformer"
            /\ infLast'.key \in EntriesOf(id)
            /\ informers[infLast'.key].externalSecrets = {infLast'.es}
            /\ infLast'.key \notin DOMAIN informers'

\* C9: an informer that has an entry has a referencing key and its stop
\* function has not been called; an informer without entry has had its
\* stop function called exactly once; and the stop function is called
\* only by the ReleaseInformer call that removes the only remaining
\* referencing key, which also removes the entry.
C9_StoppedOnceAtLastRelease == []C9_StopState /\ [][C9_StopStep]_vars

\* C9 witness: ReleaseInformer has just removed the last referencing key
\* of an informer and called its stop function, the only call so far, while
\* another informer with two referencing keys keeps running
C9_Witness ==
    /\ infLast.op = "ReleaseInformer"
    /\ infLast.stopped # Nil
    /\ infStops[infLast.stopped] = 1
    /\ infLast.key \notin DOMAIN informers
    /\ \E key \in DOMAIN informers : Cardinality(informers[key].externalSecrets) = 2

\* C10: an EnsureInformer by a key that the entry already references
\* changes nothing and starts no informer, and a ReleaseInformer by the
\* only referencing key removes the entry and stops its informer, so that
\* no informer started for that GVK string is left running.
C10_EnsureIdempotent ==
    [][/\ (infLast'.op = "EnsureInformer" /\ infLast' # infLast /\ infLast'.repeated) =>
            /\ informers' = informers
            /\ infStarted' = infStarted
            /\ ~infLast'.created
       /\ ( /\ infLast'.op = "ReleaseInformer"
            /\ infLast'.key \in DOMAIN informers
            /\ informers[infLast'.key].externalSecrets = {infLast'.es} ) =>
            /\ infLast'.key \notin DOMAIN informers'
            /\ infLast'.stopped = informers[infLast'.key].stopFunc
            /\ \A id \in StartedInformers :
                  infStarted[id] = infLast'.key => infStops'[id] = 1
      ]_vars

\* C10 witness: a key has called EnsureInformer again for an informer it
\* alone references, and the reference set holds just that key
C10_Witness ==
    /\ infLast.op = "EnsureInformer"
    /\ infLast.repeated
    /\ ~infLast.created
    /\ informers[infLast.key].externalSecrets = {infLast.es}

----------------------------------------------------------------------------
(* Claims about SetCondition *)

\* the condition of type t in a condition list
CondOf(conditions, t) == conditions[getCondition(conditions, t)]

\* C11: SetCondition leaves the LastTransitionTime of a condition type as it
\* was whenever a condition of that type exists with the same Status (so a
\* call that changes only Reason or Message keeps it), and sets it to the
\* instant of the call when the Status differs or no condition of the type
\* existed: a flip from True to False changes it once, at the flip, and the
\* later calls with Status False keep that instant.
C11_TransitionStep ==
    \A t \in CondTypes :
        /\ getCondition(conds, t) # Nil => getCondition(conds', t) # Nil
        /\ getCondition(conds', t) # Nil =>
              IF /\ getCondition(conds, t) # Nil
                 /\ CondOf(conds, t).Status = CondOf(conds', t).Status
              THEN CondOf(conds', t).LastTransitionTime =
                      CondOf(conds, t).LastTransitionTime
              ELSE CondOf(conds', t).LastTransitionTime = clock

C11_TransitionTimeOnStatusChange == [][C11_TransitionStep]_vars

\* a Ready condition that flipped from True to False at an earlier instant
\* and whose latest SetCondition call changed only its Reason or Message
C11_Witness ==
    /\ condLast.branch = "reasonOrMessage"
    /\ condLast.Type = "Ready"
    /\ getCondition(conds, "Ready") # Nil
    /\ CondOf(conds, "Ready").Status = "False"
    /\ CondOf(conds, "Ready").LastTransitionTime = 2
    /\ clock = 3

\* C12: a SetCondition call whose Status, Reason and Message equal those of
\* the current condition of that type leaves the condition list as it was:
\* the same conditions, in the same order, with the same LastTransitionTime
\* (condLast' records the branch of the call a step makes).
C12_UnchangedIsNoOp ==
    [][(condLast'.branch = "unchanged" /\ clock' = clock) => conds' = conds]_vars

\* the latest call repeated the first of two conditions, at a later instant
\* than the one the condition carries
C12_Witness ==
    /\ condLast.branch = "unchanged"
    /\ Len(conds) = 2
    /\ conds[1].Type = condLast.Type
    /\ conds[1].LastTransitionTime < clock

----------------------------------------------------------------------------
(* Claims about the StatusReconciler *)

\* the Status of the Ready condition a status carries ("" if it has none)
ReadyOf(status) ==
    IF Len(status.Conditions) >= 1 /\ status.Conditions[1].Type = "Ready"
    THEN status.Conditions[1].Status
    ELSE ""

\* C13: across consecutive reconcile attempts that end in the same Status of
\* the Ready condition (two failures in a row, two successes in a row), the
\* status written by the later attempt carries the LastTransitionTime
\* written by the earlier one.
C13_TransitionTimeKeptAcrossAttempts ==
    \A i \in 1..(Len(srWritten) - 1) :
        ReadyOf(srWritten[i]) = ReadyOf(srWritten[i + 1]) =>
            srWritten[i + 1].Conditions[1].LastTransitionTime =
                srWritten[i].Conditions[1].LastTransitionTime

\* C14: every Reconcile attempt runs the status update exactly once before
\* it returns, whichever branch exits: no update has run before the deferred
\* function, and once the call has returned exactly one update has written
\* the status of the attempt, which differs from the snapshot taken at the
\* start and reports Ready=True if the call returns nil and Ready=False with
\* reason SecretSyncedError if it returns the provider's or the update's
\* error.
C14_StatusUpdatedOnEveryExit ==
    /\ sr.pc \in {"started", "fetched", "deferred"} => sr.updates = 0
    /\ sr.pc = "returned" =>
          /\ sr.updates = 1
          /\ Len(srWritten) = sr.attempt
          /\ srWritten[Len(srWritten)] = sr.status
          /\ sr.status # sr.originalStatus
          /\ Len(sr.status.Conditions) = 1
          /\ ReadyOf(sr.status) = IF sr.err = NilErr THEN "True" ELSE "False"
          /\ sr.err # NilErr => sr.status.Conditions[1].Reason = "SecretSyncedError"

\* a second attempt has returned on the secret-update failure branch after a
\* first one that returned on another branch
C14_Witness ==
    /\ sr.pc = "returned"
    /\ sr.attempt = 2
    /\ sr.err = <<"the object has been modified">>
    /\ ReadyOf(srWritten[1]) = "True"
    /\ ReadyOf(srWritten[2]) = "False"

----------------------------------------------------------------------------
(* Claims about shouldRefresh and isSecretValidCheck *)

\* shouldRefresh has returned for the inputs held in gate
GateRefreshed == gate.pc \in {"refreshed", "checked"}

\* the policy is Periodic or any string other than CreatedOnce and OnChange
GatePeriodic == gate.spec.RefreshPolicy \notin {"CreatedOnce", "OnChange"}

\* a synced version is recorded
GateVersionRecorded == gate.status.SyncedResourceVersion # <<>>

\* the recorded synced version differs from the current generation
GateVersionMismatch ==
    gate.status.SyncedResourceVersion # Sprint(gate.currentGeneration)

\* the resource was never synced
GateNeverSynced ==
    gate.status.SyncedResourceVersion = <<>> \/ gate.status.RefreshTime = ZeroTime

\* the refresh interval has elapsed since the last refresh
GateElapsed == gate.now - gate.status.RefreshTime >= gate.spec.RefreshInterval

\* C15: for the Periodic policy and for every policy string other than
\* CreatedOnce and OnChange, shouldRefresh returns false when the interval
\* is <= 0 and a synced version is recorded; otherwise it returns true if
\* and only if the synced version differs from the current generation, or
\* RefreshTime is zero, or now - RefreshTime >= interval.
C15_PeriodicRefresh ==
    (GateRefreshed /\ GatePeriodic) =>
        gate.refresh =
            IF gate.spec.RefreshInterval <= 0 /\ GateVersionRecorded
            THEN FALSE
            ELSE \/ GateVersionMismatch
                 \/ gate.status.RefreshTime = ZeroTime
                 \/ GateElapsed

\* Periodic, a positive interval of which half has elapsed, and a matching
\* version: no refresh
C15_Witness ==
    /\ GateRefreshed
    /\ gate.spec.RefreshPolicy = "Periodic"
    /\ gate.spec.RefreshInterval = 2
    /\ gate.status.RefreshTime = 2
    /\ gate.now = 3
    /\ ~GateVersionMismatch
    /\ ~gate.refresh

\* C16 as stated: under the Periodic policy shouldRefresh returns true
\* whenever the recorded synced version differs from the current generation,
\* for every refresh interval and refresh time.
C16_MismatchAlwaysRefreshes ==
    (GateRefreshed /\ GatePeriodic /\ GateVersionMismatch) => gate.refresh

\* C16: under the Periodic policy shouldRefresh returns true whenever the
\* recorded synced version differs from the current generation, unless the
\* interval is <= 0 and a synced version is recorded, in which case it
\* returns false.
C16_MismatchRefreshesUnlessIntervalOff ==
    (GateRefreshed /\ GatePeriodic /\ GateVersionMismatch) =>
        gate.refresh = ~(gate.spec.RefreshInterval <= 0 /\ GateVersionRecorded)

\* Periodic with a positive interval that has not elapsed and a recorded
\* version of another generation: refresh
C16_Witness ==
    /\ GateRefreshed
    /\ gate.spec.RefreshPolicy = "Periodic"
    /\ gate.spec.RefreshInterval = 2
    /\ gate.status.RefreshTime = 2
    /\ gate.now = 3
    /\ GateVersionRecorded
    /\ GateVersionMismatch
    /\ gate.refresh

\* C17: under CreatedOnce shouldRefresh returns true if and only if the
\* resource was never synced (no synced version or a zero RefreshTime),
\* whatever the elapsed time, the interval and the generation are.
C17_CreatedOnceRefresh ==
    (GateRefreshed /\ gate.spec.RefreshPolicy = "CreatedOnce") =>
        gate.refresh = GateNeverSynced

\* CreatedOnce, synced, the interval elapsed and the generation changed: no
\* refresh
C17_Witness ==
    /\ GateRefreshed
    /\ gate.spec.RefreshPolicy = "CreatedOnce"
    /\ ~GateNeverSynced
    /\ gate.spec.RefreshInterval = 2
    /\ GateElapsed
    /\ GateVersionMismatch
    /\ ~gate.refresh

\* C18: under OnChange shouldRefresh returns true if and only if the
\* resource was never synced or the recorded synced version differs from
\* the current generation, whatever the elapsed time and the interval are.
C18_OnChangeRefresh ==
    (GateRefreshed /\ gate.spec.RefreshPolicy = "OnChange") =>
        gate.refresh = (GateNeverSynced \/ GateVersionMismatch)

\* OnChange, synced with the current generation, the interval elapsed: no
\* refresh
C18_Witness ==
    /\ GateRefreshed
    /\ gate.spec.RefreshPolicy = "OnChange"
    /\ ~GateNeverSynced
    /\ ~GateVersionMismatch
    /\ gate.spec.RefreshInterval = 2
    /\ GateElapsed
    /\ ~gate.refresh

\* C19: isSecretValidCheck returns true if and only if the secret exists,
\* carries the managed label and its data hash equals the expected hash,
\* whatever the refresh policy, synced version and refresh time are and
\* whatever shouldRefresh returned.
C19_SecretValidity ==
    gate.pc = "checked" =>
        gate.valid = (/\ gate.secret.Exists
                      /\ gate.secret.HasManagedLabel
                      /\ gate.secret.DataHash = gate.expectedDataHash)

\* no refresh is due, the secret exists with the managed label, and its
\* hash differs from the expected one: not valid
C19_Witness ==
    /\ gate.pc = "checked"
    /\ ~gate.refresh
    /\ gate.secret.Exists
    /\ gate.secret.HasManagedLabel
    /\ gate.secret.DataHash # gate.expectedDataHash
    /\ ~gate.valid

----------------------------------------------------------------------------
(* Claims about the rate limiter *)

\* the delays of the table, in seconds, for failure counts 0..10
DelayTable == <<1, 2, 4, 8, 16, 32, 64, 128, 256, 420, 420>>

\* min(max, base * 2^n)
RECURSIVE MinOfCapAndDoubled(_, _, _)
MinOfCapAndDoubled(base, n, max) ==
    IF base >= max THEN max
    ELSE IF n = 0 THEN base
    ELSE MinOfCapAndDoubled(2 * base, n - 1, max)

\* C20: with base 1s and max 7m the delay for failure counts 0..10 is 1s, 2s,
\* 4s, 8s, 16s, 32s, 64s, 128s, 256s, 420s, 420s, and for every base, max
\* and failure count DelayForFailure(n) = min(MaxDelay, BaseDelay * 2^n).
C20_DelayIsCappedDoubling ==
    rl.pc = "done" =>
        /\ (/\ rl.backoff.BaseDelay = 1 * Second
            /\ rl.backoff.MaxDelay = 7 * Minute
            /\ rl.failures <= 10) => rl.delay = DelayTable[rl.failures + 1] * Second
        /\ rl.delay = MinOfCapAndDoubled(rl.backoff.BaseDelay, rl.failures,
                                         rl.backoff.MaxDelay)

\* C21: for every failure count n >= 0, however large, DelayForFailure(n)
\* is at least BaseDelay and at most MaxDelay (so never negative and never
\* wrapped around), and it is not below the delay returned for n - 1.
C21_DelayWithinBoundsAndMonotone ==
    rl.pc = "done" =>
        /\ rl.delay >= rl.backoff.BaseDelay
        /\ rl.delay <= rl.backoff.MaxDelay
        /\ rl.delay >= 0
        /\ rl.failures > 0 =>
              \A conv \in Float64ToInt64Overflow :
                  rl.delay >= DelayForFailure(rl.backoff, rl.failures - 1, conv)

\* C22 as stated: for a key with failure count 0 the combined delay is the
\* token bucket's wait alone, the backoff contributing nothing.
C22_BucketWaitAloneAtZero ==
    (rl.pc = "limited" /\ rl.failures = 0) => rl.max = rl.delays[2]

\* C22, amended: for a key with failure count 0 the backoff contributes
\* BaseDelay, so the combined delay is the longer of BaseDelay and of the
\* token bucket's wait.
C22_BaseDelayOrBucketWaitAtZero ==
    (rl.pc = "limited" /\ rl.failures = 0) =>
        /\ rl.delay = rl.backoff.BaseDelay
        /\ rl.max = IF rl.backoff.BaseDelay > rl.delays[2]
                    THEN rl.backoff.BaseDelay ELSE rl.delays[2]

C22_Witness ==
    /\ rl.pc = "limited"
    /\ rl.failures = 0
    /\ rl.delays[2] = 0
    /\ rl.max = 1 * Second

C24_ResultHandling ==
    rh.key # "" =>
        /\ \A k \in RhKeys \ {rh.key} : rh.failures[k] = rh.before[k]
        /\ IF rh.err # NilErr
           THEN /\ rh.calls = <<AddRateLimited>>
                /\ rh.failures[rh.key] = rh.before[rh.key] + 1
           ELSE IF rh.result.RequeueAfter > 0
           THEN /\ rh.calls = <<Forget, AddAfter(rh.result.RequeueAfter)>>
                /\ rh.failures[rh.key] = 0
           ELSE IF rh.result.Requeue
           THEN /\ rh.calls = <<AddRateLimited>>
                /\ rh.failures[rh.key] = rh.before[rh.key] + 1
           ELSE /\ rh.calls = <<Forget>>
                /\ rh.failures[rh.key] = 0

C24_Witness ==
    /\ rh.key # ""
    /\ rh.err # NilErr
    /\ rh.result.RequeueAfter = 1 * Hour
    /\ rh.before[rh.key] = 1
    /\ rh.failures[rh.key] = 2

\* C25: ReconcileWithTryLock releases the lock it acquired when it returns:
\* a mutex is locked only while the one caller that acquired it is still
\* inside, the return of that caller leaves the mutex free, a TryLock on a
\* free mutex succeeds, and a caller whose TryLock failed returns the
\* error without unlocking anything.
C25_LockReleasedOnEveryExit ==
    /\ [](\A m \in 1..nextMu :
            mutexLocked[m] <=>
                \E c \in Callers : lpc[c] = "holding" /\ lunlock[c] = m)
    /\ [][\A c \in Callers :
            /\ (lpc[c] = "holding" /\ lpc'[c] = "idle") =>
                  /\ ~mutexLocked'[lmu[c]]
                  /\ lerr'[c] = NilErr
            /\ (lpc[c] = "loaded" /\ lpc'[c] = "idle") =>
                  /\ mutexLocked[lmu[c]]
                  /\ mutexLocked' = mutexLocked
                  /\ lunlock'[c] = Nil
                  /\ ErrorsIs(lerr'[c], ErrConflict)
            /\ (lpc[c] = "loaded" /\ lpc'[c] = "holding") =>
                  ~mutexLocked[lmu[c]]]_vars

\* one caller has returned from holding a key's lock and another caller
\* holds the lock of the same key
C25_Witness ==
    \E c, d \in Callers :
        /\ c # d
        /\ lpc[c] = "idle" /\ larg[c] # NoArg /\ lerr[c] = NilErr
        /\ lpc[d] = "holding" /\ larg[d] = larg[c]
        /\ lmu[d] = lmu[c]

\* C26: a ReleaseInformer for a key that has no entry, or by an
\* ExternalSecret that is not in the entry's reference set, changes nothing:
\* no entry and no reference of another ExternalSecret is removed and no
\* stop function is called.
C26_ReleaseByNonMemberIsNoOp ==
    [][(infLast'.op = "ReleaseInformer" /\ ~infLast'.member) =>
          /\ informers' = informers
          /\ infStops' = infStops
          /\ infStarted' = infStarted
          /\ infLast'.stopped = Nil]_vars

\* an ExternalSecret that is not in the reference set of an existing entry
\* has just released it
C26_Witness ==
    /\ infLast.op = "ReleaseInformer"
    /\ infLast.exists /\ ~infLast.member
    /\ infLast.key \in DOMAIN informers
    /\ infLast.es \notin informers[infLast.key].externalSecrets
    /\ infStops[informers[infLast.key].stopFunc] = 0

\* the informers started for a key whose stop function has not been called
LiveInformers(key) ==
    { id \in 1..Len(infStarted) : infStarted[id] = key /\ infStops[id] = 0 }

\* C27: with goroutines running EnsureInformer and ReleaseInformer
\* concurrently, at any time there is at most one live informer per GVK
\* string, and it is the one of the GVK's entry; EnsureInformer starts an
\* informer and returns true exactly when the GVK has no entry, and
\* otherwise returns false and leaves the entry's informer in place.
C27_OneLiveInformerPerGVK ==
    /\ [](\A gvk \in ConcGVKs :
            LET key == GVKString(gvk)
            IN /\ Cardinality(LiveInformers(key)) <= 1
               /\ LiveInformers(key) =
                     IF key \in DOMAIN informers
                     THEN {informers[key].stopFunc} ELSE {})
    /\ [][\A g \in Goroutines :
            ( /\ infCall[g].pc = "found" /\ infCall'[g].pc = "unlock"
              /\ infCall[g].op = "EnsureInformer" ) =>
            LET key == infCall[g].key
            IN /\ infCall'[g].created <=> key \notin DOMAIN informers
               /\ infCall'[g].created =>
                     /\ Len(infStarted') = Len(infStarted) + 1
                     /\ informers'[key].stopFunc = Len(infStarted')
               /\ ~infCall'[g].created =>
                     /\ infStarted' = infStarted
                     /\ informers'[key].stopFunc = informers[key].stopFunc]_vars

\* a goroutine's EnsureInformer has reused the informer of a GVK while the
\* other goroutine's EnsureInformer for the same GVK waits for the mutex
C27_Witness ==
    \E g, h \in Goroutines :
        /\ g # h
        /\ infCall[g].pc = "unlock" /\ infCall[g].op = "EnsureInformer"
        /\ ~infCall[g].created
        /\ infCall[h].pc = "lock" /\ infCall[h].op = "EnsureInformer"
        /\ infCall[h].key = infCall[g].key
        /\ Cardinality(LiveInformers(infCall[g].key)) = 1

\* C28: when the desired object is not found, Reconcile returns success
\* having made no call but the read of the desired object: it reads no
\* managed secret, calls no provider and creates or updates no secret.
C28_NotFoundIsSuccessWithoutWork ==
    rec.desiredRead = "NotFound" =>
        /\ rec.pc = "done"
        /\ rec.calls = <<"GetExternalSecret">>
        /\ rec.err = NilErr

C28_Witness ==
    /\ rec.pc = "done"
    /\ rec.desiredRead = "NotFound"
    /\ rec.calls = <<"GetExternalSecret">>

\* the writes of the managed secret that the call made
RecWrites ==
    { i \in 1..Len(rec.calls) : rec.calls[i] \in {"CreateSecret", "UpdateSecret"} }

\* C29: when the gate does not skip and the provider fetch succeeds,
\* Reconcile performs exactly one write, CreateSecret if the managed secret
\* was absent (NotFound) and UpdateSecret if it existed; when the fetch
\* fails, or the read of the managed secret fails with an error other than
\* NotFound, it returns that error and performs no write.
C29_OneWriteByPresence ==
    rec.pc = "done" =>
        /\ rec.fetchRes = "ok" =>
              /\ Cardinality(RecWrites) = 1
              /\ rec.secretRead = "NotFound" =>
                    rec.calls[Len(rec.calls)] = "CreateSecret"
              /\ rec.secretRead = "ok" =>
                    rec.calls[Len(rec.calls)] = "UpdateSecret"
        /\ rec.fetchRes = "provider failed" =>
              rec.err = <<"provider failed">> /\ RecWrites = {}
        /\ rec.secretRead = "error" =>
              rec.err = <<"GetSecret failed">> /\ RecWrites = {}

\* two calls read the same desired and observed state, the instant at
\* which the gate looks at the clock included
SameReads(a, b) ==
    /\ a.desiredRead = b.desiredRead /\ a.desired = b.desired
    /\ a.secretRead = b.secretRead /\ a.secret = b.secret
    /\ a.actualNil = b.actualNil
    /\ a.now = b.now

GenFailingRollbacks ==
    { i \in 1..Len(gw.queue) : Returned(gw.queue[i].Rollback) # NilErr }

\* C31: when validation fails in generateWithRollback, the rollback of
\* every queued item is run, in order, no commit function is run, and the
\* returned error holds the validation error and the error of every
\* failing rollback, and nothing else.
C31_ValidationFailureRollsBackAndJoins ==
    (gw.pc = "done" /\ gw.validate \notin {"none", "ok"}) =>
        /\ gw.calls = <<[fn |-> "Rollback", item |-> 1], [fn |-> "Rollback", item |-> 2]>>
        /\ \A j \in 1..Len(gw.calls) : gw.calls[j].fn # "Commit"
        /\ ErrorsIs(gw.err, gw.validate)
        /\ \A i \in GenFailingRollbacks : ErrorsIs(gw.err, gw.queue[i].Rollback)
        /\ Len(gw.err) = 1 + Cardinality(GenFailingRollbacks)

\* validation failed and both rollbacks failed: three errors are returned
C31_Witness ==
    /\ gw.pc = "done"
    /\ gw.validate = "credential not active"
    /\ GenFailingRollbacks = {1, 2}
    /\ gw.err = <<"credential not active", "deleteCloudCredential failed",
                  "removeReferences failed">>

Bookkeeping(status) ==
    <<status.RefreshTime, status.SyncedResourceVersion, status.Binding>>

\* C33: the bookkeeping fields RefreshTime, SyncedResourceVersion and
\* Binding are left as they were by an attempt that fails: its status
\* carries the fields of the snapshot taken at its start, and the status it
\* writes carries the fields of the status written before it, so that
\* RefreshTime still shows the last successful refresh.
C33_BookkeepingKeptOnFailure ==
    /\ (sr.pc \in {"deferred", "returned"} /\ sr.err # NilErr) =>
          Bookkeeping(sr.status) = Bookkeeping(sr.originalStatus)
    /\ \A i \in 1..(Len(srWritten) - 1) :
          ReadyOf(srWritten[i + 1]) = "False" =>
              Bookkeeping(srWritten[i + 1]) = Bookkeeping(srWritten[i])

\* base * factor^k, the multiplication stopping at the first value above
\* limit
RECURSIVE ScaleByFactor(_, _, _, _)
ScaleByFactor(d, factor, k, limit) ==
    IF k = 0 \/ d > limit THEN d
    ELSE ScaleByFactor(d * factor, factor, k - 1, limit)

\* base * factor^k capped at maxDelay
CappedPower(b, k) ==
    LET d == ScaleByFactor(b.base, b.factor, k, b.maxDelay)
    IN IF d > b.maxDelay THEN b.maxDelay ELSE d

----------------------------------------------------------------------------
(* C35 *)

\* the last Reconcile read a Resource marked for deletion
FinLastDeleting ==
    fin.last.ran /\ fin.last.get = "ok" /\ fin.last.before.deleting

\* the finalizers stored after the last Reconcile
FinStoredFinalizers == IF fin.stored.exists THEN fin.stored.Finalizers ELSE <<>>

\* C35: for a Resource marked for deletion that carries the finalizer, the
\* finalizer is removed (and Update called) only after the cleanup
\* succeeded: under DeletionPolicy Delete, DeleteSecret is called before
\* Update and, when it fails, Update is not called, the stored finalizers
\* are unchanged and its error is returned; under any other policy
\* DeleteSecret is not called; and a Resource marked for deletion never has
\* the finalizer added
C35_FinalizerRemovedOnlyAfterCleanup ==
    FinLastDeleting =>
        LET l == fin.last
            carried == hasFinalizer(l.before.Finalizers, MyFinalizer)
        IN /\ (carried /\ l.before.DeletionPolicy = "Delete") =>
                 /\ Len(l.calls) >= 2 /\ l.calls[2] = "DeleteSecret"
                 /\ l.del # "ok" =>
                       /\ l.calls = <<"Get", "DeleteSecret">>
                       /\ fin.stored = l.before
                       /\ l.err = <<l.del>>
                 /\ l.del = "ok" => l.calls = <<"Get", "DeleteSecret", "Update">>
           /\ (carried /\ l.before.DeletionPolicy # "Delete") =>
                 l.calls = <<"Get", "Update">>
           /\ (carried /\ ~hasFinalizer(FinStoredFinalizers, MyFinalizer)) =>
                 /\ l.calls[Len(l.calls)] = "Update" /\ l.upd = "ok"
                 /\ l.before.DeletionPolicy = "Delete" => l.del = "ok"
                 /\ FinStoredFinalizers = removeFinalizer(l.before.Finalizers, MyFinalizer)
           /\ ~carried =>
                 /\ l.calls = <<"Get">>
                 /\ fin.stored = l.before
                 /\ ~hasFinalizer(FinStoredFinalizers, MyFinalizer)

\* a Reconcile of a deleting Resource under policy Delete whose DeleteSecret
\* failed, while another finalizer is also present
C35_Witness ==
    /\ FinLastDeleting
    /\ fin.last.before.DeletionPolicy = "Delete"
    /\ fin.last.before.Finalizers = <<OtherFinalizer, MyFinalizer>>
    /\ fin.last.del # "ok"
    /\ fin.last.err # NilErr

----------------------------------------------------------------------------
(* C36 *)

\* the attempts made so far in the call
RtAttempts == Len(rt.outcomes)

\* C36: for every maxRetries, ReconcileWithRetry makes at most maxRetries
\* attempts, every attempt but the last one made failed with ErrConflict,
\* it returns nil at the first successful attempt and any other error at
\* once, and when every attempt conflicted it returns an error for which
\* errors.Is(err, ErrConflict) holds
C36_RetryOnlyOnConflict ==
    /\ RtAttempts <= IF rt.maxRetries > 0 THEN rt.maxRetries ELSE 0
    /\ \A i \in 1..(RtAttempts - 1) : ErrorsIs(rt.outcomes[i], ErrConflict)
    /\ rt.pc = "loop" => \A i \in 1..RtAttempts : ErrorsIs(rt.outcomes[i], ErrConflict)
    /\ rt.pc = "returned" =>
          /\ (RtAttempts > 0 /\ ~ErrorsIs(rt.outcomes[RtAttempts], ErrConflict)) =>
                rt.err = rt.outcomes[RtAttempts]
          /\ (\A i \in 1..RtAttempts : ErrorsIs(rt.outcomes[i], ErrConflict)) =>
                ErrorsIs(rt.err, ErrConflict)

\* C36 where at least one attempt is allowed
C36_RetryOnlyOnConflictFromOne ==
    rt.maxRetries >= 1 => C36_RetryOnlyOnConflict

\* a call with maxRetries 0 has returned
C36_ZeroRetriesReturned ==
    rt.pc = "returned" /\ rt.maxRetries = 0

----------------------------------------------------------------------------
(* C37 *)

\* C37: after any sequence of EnsureInformer and ReleaseInformer calls,
\* every entry of the informer table has a non-empty reference set, and
\* IsManaged(gvk) is true exactly when at least one key has ensured that
\* GVK and not released it since
C37_ManagedIffHeld ==
    /\ \A key \in DOMAIN informers : informers[key].externalSecrets # {}
    /\ \A gvk \in GVKs :
          IsManaged(informers, gvk) <=>
             \E es \in NamespacedNames : <<gvk, es>> \in infHeld.byGVK

\* the same, with a GVK identified by its String(): holds
C37_ManagedIffKeyHeld ==
    /\ \A key \in DOMAIN informers : informers[key].externalSecrets # {}
    /\ \A gvk \in GVKs :
          IsManaged(informers, gvk) <=>
             \E es \in NamespacedNames : <<GVKString(gvk), es>> \in infHeld.byKey

\* a GVK is held by a key although its informer has been removed
C37_HeldButNotManaged ==
    \E gvk \in GVKs, es \in NamespacedNames :
       <<gvk, es>> \in infHeld.byGVK /\ ~IsManaged(informers, gvk)

----------------------------------------------------------------------------
(* C38 *)

\* the conditions of one type, in the order of the status
ConditionsOfType(conditions, condType) ==
    LET Is(c) == c.Type = condType
    IN SelectSeq(conditions, Is)

AtMostOnePerType(conditions) ==
    \A t \in CondTypes : Len(ConditionsOfType(conditions, t)) <= 1

\* C38: starting from a status with at most one condition per type, after
\* any sequence of SetCondition calls the status holds at most one
\* condition per type, and a call for one type leaves the conditions of
\* every other type, LastTransitionTime included, as they were
C38_OnePerTypeOthersUntouched ==
    /\ [](AtMostOnePerType(conds))
    /\ [][\A t \in CondTypes :
             (conds' # conds /\ condLast'.Type # t) =>
                ConditionsOfType(conds', t) = ConditionsOfType(conds, t)]_vars

\* a call replaced the condition of its type while a condition of another
\* type, set at an earlier instant, is in the status
C38_Witness ==
    /\ Len(conds) = 2
    /\ condLast.branch = "status"
    /\ conds[2].Type = condLast.Type
    /\ conds[1].Type # condLast.Type
    /\ conds[1].LastTransitionTime < conds[2].LastTransitionTime

----------------------------------------------------------------------------
(* C39 *)

\* the queue as it was when Commit or Rollback last ran
SmQueueAtLast == SubSeq(smQueue, 1, smSeen)

\* the function of item i that the last operation is about
SmFuncAtLast(i) ==
    IF smLast = "Commit" THEN SmQueueAtLast[i].Commit ELSE SmQueueAtLast[i].Rollback

\* C39: Commit and Rollback call the queued functions in enqueue order,
\* each non-nil function once and no nil one, whatever the earlier ones
\* returned; Commit returns nil exactly when every commit it called
\* returned nil
C39_EnqueueOrderAllCalled ==
    smLast \in {"Commit", "Rollback"} =>
        /\ \A j \in 1..Len(smCalls) :
              /\ smCalls[j].fn = smLast
              /\ smCalls[j].item \in 1..smSeen
              /\ SmFuncAtLast(smCalls[j].item) # "nil"
        /\ \A j, k \in 1..Len(smCalls) :
              j < k => smCalls[j].item < smCalls[k].item
        /\ \A i \in 1..smSeen :
              SmFuncAtLast(i) # "nil" =>
                 \E j \in 1..Len(smCalls) : smCalls[j].item = i
        /\ smLast = "Commit" =>
              (smErr = NilErr <=>
                  \A i \in 1..smSeen : SmQueueAtLast[i].Commit \in {"nil", "ok"})

\* a Commit whose first commit failed and whose second was still called
C39_Witness ==
    /\ smLast = "Commit"
    /\ smSeen = 2
    /\ smQueue[1].Commit = "commit failed"
    /\ smQueue[2].Commit = "ok"
    /\ Len(smCalls) = 2
    /\ smErr # NilErr

----------------------------------------------------------------------------
(* C40 *)

\* the step is caller c's TryLock returning ErrConflict
TryLockFails(c) ==
    /\ lpc[c] = "loaded" /\ lpc'[c] = "idle"
    /\ ErrorsIs(lerr'[c], ErrConflict)

\* the callers that hold the mutex caller c tried
HoldersOfMutex(c) ==
    { d \in Callers \ {c} : lpc[d] = "holding" /\ lunlock[d] = lmu[c] }

\* C40: TryLock calls for two different (providerName, secretName) pairs
\* never conflict: when a TryLock fails, the lock that made it fail is held
\* for the same pair, for all provider and secret names
C40_DifferentPairsNeverConflict ==
    [][\A c \in Callers :
          TryLockFails(c) => \A d \in HoldersOfMutex(c) : larg[d] = larg[c]]_vars

\* the same for composite keys: a failed TryLock met a holder of its key
C40_DifferentKeysNeverConflict ==
    [][\A c \in Callers :
          TryLockFails(c) =>
             /\ HoldersOfMutex(c) # {}
             /\ \A d \in HoldersOfMutex(c) : CallKey(d) = CallKey(c)]_vars

====
